---- MODULE Spec2Model ----
(***************************************************************************)
(* A model of the xbridge validation engine: rule selection, the           *)
(* run_validation execution loop, ValidationContext.add_finding, and the   *)
(* process-wide single-slot scan caches of the rule modules.               *)
(***************************************************************************)
EXTENDS Integers, Sequences, FiniteSets, TLC

\* ------------------------------------------------------------------ bounds
\* Number of entries in a registry enumerated for rule selection.
MaxRules == 2
\* Unknown filing indicators / unknown concepts an input document carries.
MaxIssues == 1

\* ------------------------------------------------------------ basic values
\* Python's None, where the value is otherwise a string ...
None == "None"
\* ... and where it is otherwise an object.
NoObject == [none |-> TRUE]

\* Severity(Enum): ERROR, WARNING, INFO.
Severity == {"ERROR", "WARNING", "INFO"}

\* The two rule sets _detect_format can return.
RuleSets == {"xml", "csv"}

\* Rule codes in catalog order used by the enumerated registries.
CatalogCodes == <<"XML-001", "XML-002", "XML-070">>

\* RuleDefinition.__init__: the fields of one registry.json entry.
RuleDefinition(code, message, severity, xml, csv, eba, post_conversion, csv_severity, csv_message) ==
    [code |-> code, message |-> message, severity |-> severity, xml |-> xml,
     csv |-> csv, eba |-> eba, post_conversion |-> post_conversion,
     csv_severity |-> csv_severity, csv_message |-> csv_message]

\* A message template: literal text and {named} placeholders, in order.
Template(tokens) == [tokens |-> tokens]
Text(t) == [text |-> t]
Placeholder(name) == [placeholder |-> name]
\* The literal text "{name}".
Braced(name) == [braced |-> name]
\* A placeholder with a format spec, "{name:d}".
Typed(name, spec) == [placeholder |-> name, spec |-> spec]
\* A positional field, "{}" or "{0}".
Positional == [positional |-> TRUE]
\* A single "{" or "}" that belongs to no field.
LoneBrace == [lone_brace |-> TRUE]
DetailMessage == Template(<<Text("Problem: "), Placeholder("detail")>>)
CsvDetailMessage == Template(<<Text("CSV problem: "), Placeholder("detail")>>)

VARIABLES
    registry,         \* load_registry(): the ordered rule catalog
    impl_registry,    \* _registry._impl_registry: (code, format) -> function
    rules_imported,   \* sys.modules: the modules of the rules package in it
    taxonomy_env,     \* the modules folder: index.json and module files
    file,             \* run_validation: the input given as `file`
    rule_set,         \* run_validation: rule_set
    eba,              \* run_validation: eba
    post_conversion,  \* run_validation: post_conversion
    selected,         \* run_validation: selected
    idx,              \* run_validation: position of `for rule in selected`
    all_findings,     \* run_validation: all_findings
    job,              \* run_validation: the locals handed to every context
    temp_dir,         \* the directory made by _extract_xml_from_zip
    error,            \* the exception that left the operation, or None
    run_no,           \* 1, or 2 when the same input is validated again
    prev,             \* outcome of the previous run on this input
    direct_ctx,       \* a ValidationContext built and used directly
    xml_document_last_scan,      \* xml_document._last_scan
    eba_decimals_last_type_map,  \* eba_decimals._last_type_map
    xml_taxonomy_last_taxonomy,  \* xml_taxonomy._last_taxonomy
    xml_taxonomy_last_scan,      \* xml_taxonomy._last_scan
    computed_from,    \* history: the objects the taxonomy caches were computed from
    cjob,             \* the job whose rules use the caches: its root and module
    pjob,             \* the input and the findings of the job before it
    njobs,            \* jobs started so far
    pc                \* position inside the running operation

vars == <<registry, impl_registry, rules_imported, taxonomy_env, file, rule_set,
          eba, post_conversion, selected, idx, all_findings, job, temp_dir,
          error, run_no, prev, direct_ctx, xml_document_last_scan,
          eba_decimals_last_type_map, xml_taxonomy_last_taxonomy,
          xml_taxonomy_last_scan, computed_from, cjob, pjob, njobs, pc>>

\* Variables the engine's job does not own.
process_vars == <<impl_registry, rules_imported>>
job_vars == <<file, idx, all_findings, job, temp_dir, error, run_no, prev>>
direct_vars == <<direct_ctx>>
cache_vars == <<xml_document_last_scan, eba_decimals_last_type_map,
                xml_taxonomy_last_taxonomy, xml_taxonomy_last_scan,
                computed_from, cjob, pjob, njobs>>
engine_vars == <<registry, taxonomy_env, process_vars, job_vars, rule_set, eba,
                 post_conversion, selected>>

\* No job has used the rules' caches yet.
CacheInit ==
    /\ xml_document_last_scan = NoObject
    /\ eba_decimals_last_type_map = NoObject
    /\ xml_taxonomy_last_taxonomy = NoObject
    /\ xml_taxonomy_last_scan = NoObject
    /\ computed_from = [taxonomy |-> NoObject, scan |-> NoObject]
    /\ cjob = NoObject
    /\ pjob = NoObject
    /\ njobs = 0

\* ------------------------------------------------------------ select_rules
\* The filter loop of select_rules, one iteration per registry entry; each
\* `continue` of the source is a branch that moves on without appending.
RECURSIVE select_loop(_, _, _, _, _, _)
select_loop(reg, i, rs, e, postconv, sel) ==
    IF i > Len(reg) THEN sel
    ELSE LET rule == reg[i] IN
         IF rs = "xml" /\ ~rule.xml THEN select_loop(reg, i + 1, rs, e, postconv, sel)
         ELSE IF rs = "csv" /\ ~rule.csv THEN select_loop(reg, i + 1, rs, e, postconv, sel)
         ELSE IF rule.eba /\ ~e THEN select_loop(reg, i + 1, rs, e, postconv, sel)
         ELSE IF rs = "csv" /\ postconv /\ ~rule.post_conversion
              THEN select_loop(reg, i + 1, rs, e, postconv, sel)
         ELSE select_loop(reg, i + 1, rs, e, postconv, Append(sel, rule))

\* A plausible slip: the post-conversion filter applied to every rule set.
select_rules_mut(reg, rs, e, postconv) ==
    SelectSeq(select_loop(reg, 1, rs, e, FALSE, <<>>),
              LAMBDA r : ~(postconv /\ ~r.post_conversion))

select_rules(reg, rs, e, postconv) == select_loop(reg, 1, rs, e, postconv, <<>>)

\* ------------------------------------------------- rule selection, alone
\* Registries of up to MaxRules entries, codes in catalog order, every
\* combination of the four selection flags.
FlagRules(code) ==
    { RuleDefinition(code, DetailMessage, "ERROR", x, c, e, p, None, NoObject) :
        x \in BOOLEAN, c \in BOOLEAN, e \in BOOLEAN, p \in BOOLEAN }

RECURSIVE RegistriesOfLen(_)
RegistriesOfLen(n) ==
    IF n = 0 THEN { <<>> }
    ELSE { Append(r, d) : r \in RegistriesOfLen(n - 1), d \in FlagRules(CatalogCodes[n]) }

SelectRegistries == UNION { RegistriesOfLen(n) : n \in 0..MaxRules }

InitSelect ==
    /\ registry \in SelectRegistries
    /\ rule_set \in RuleSets
    /\ eba \in BOOLEAN
    /\ post_conversion \in BOOLEAN
    /\ selected = <<>>
    /\ pc = "call"
    /\ impl_registry = <<>>
    /\ rules_imported = {}
    /\ taxonomy_env = NoObject
    /\ file = NoObject
    /\ idx = 0
    /\ all_findings = <<>>
    /\ job = NoObject
    /\ temp_dir = None
    /\ error = None
    /\ run_no = 1
    /\ prev = NoObject
    /\ direct_ctx = NoObject
    /\ CacheInit

SelectRules ==
    /\ pc = "call"
    /\ selected' = select_rules(registry, rule_set, eba, post_conversion)
    /\ pc' = "selected"
    /\ UNCHANGED <<registry, rule_set, eba, post_conversion, taxonomy_env>>
    /\ UNCHANGED <<process_vars, job_vars, direct_vars, cache_vars>>

NextSelect == SelectRules

SpecSelect == InitSelect /\ [][NextSelect]_vars

\* ================================================================ engine
\* ------------------------------------------------------------ the inputs
\* str.lower() on the suffixes and encoding names the inputs use.
Lower(s) ==
    CASE s = ".XBRL" -> ".xbrl"
      [] s = ".XML" -> ".xml"
      [] s = ".ZIP" -> ".zip"
      [] s = "UTF-8" -> "utf-8"
      [] OTHER -> s

\* A ZIP entry name: its directories, and the suffix of its last component.
Entry(dirs, base, ext) == [dirs |-> dirs, base |-> base, ext |-> ext]

ReportJson == Entry(<<"reports">>, "report", ".json")
NestedReportJson == Entry(<<"pkg", "reports">>, "report", ".json")
RootXbrl == Entry(<<>>, "a", ".xbrl")
RootXml == Entry(<<>>, "b", ".XML")
NestedXbrl == Entry(<<"sub">>, "c", ".xbrl")

\* A file read as a ZIP: not an archive at all (BadZipFile), or its
\* namelist().
Archive(names) == [bad |-> FALSE, names |-> names]
BadZip == [bad |-> TRUE, names |-> <<>>]

\* The archives the engine is run on.
EngineArchives ==
    { BadZip, Archive(<<>>), Archive(<<ReportJson>>),
      Archive(<<NestedReportJson, RootXbrl>>), Archive(<<RootXbrl>>),
      Archive(<<RootXbrl, RootXml>>), Archive(<<NestedXbrl>>) }

\* What the bytes of an instance are, as far as the engine and the rules
\* look at them: well-formed XML or not, whether the instance loader accepts
\* them, the schema reference, the declared encoding.
Contents ==
    { [wellformed |-> w, instance_ok |-> i, module_ref |-> m, encoding |-> enc,
       unknown_indicators |-> n, unknown_concepts |-> n] :
        w \in BOOLEAN, i \in BOOLEAN, m \in {None, "mod1"},
        enc \in {"UTF-8", "iso-8859-1"}, n \in 0..MaxIssues }

\* The loader accepts only well-formed bytes, and only a loaded instance
\* has a module_ref.
EngineContents ==
    { c \in Contents : (c.instance_ok => c.wellformed)
                       /\ (c.module_ref # None => c.instance_ok) }

InputFile(exists, suffix, archive, content) ==
    [exists |-> exists, suffix |-> suffix, archive |-> archive, content |-> content]

NoContent == CHOOSE c \in EngineContents : ~c.wellformed /\ c.unknown_concepts = 0
                                            /\ c.encoding = "UTF-8"

\* The inputs of the engine; the content is varied where the engine gets as
\* far as reading it.
EngineFiles ==
    { InputFile(FALSE, ".xbrl", BadZip, NoContent), InputFile(TRUE, ".txt", BadZip, NoContent) }
    \cup { InputFile(TRUE, sfx, BadZip, c) : sfx \in {".xbrl", ".XML"}, c \in EngineContents }
    \cup { InputFile(TRUE, ".zip", a, c) : a \in EngineArchives, c \in EngineContents }

\* The modules folder: whether index.json exists, the URLs it lists, and
\* the URLs whose module file exists.
TaxonomyEnv(index_exists, index, module_files) ==
    [index_exists |-> index_exists, index |-> index, module_files |-> module_files]

TaxonomyEnvs ==
    { TaxonomyEnv(FALSE, {}, {}), TaxonomyEnv(TRUE, {}, {"mod1"}),
      TaxonomyEnv(TRUE, {"mod1"}, {}), TaxonomyEnv(TRUE, {"mod1"}, {"mod1"}) }

\* ------------------------------------------------------ format detection
Raise(exc) == [ok |-> FALSE, error |-> exc]
Value(v) == [ok |-> TRUE, value |-> v]

IsInstanceName(e) == Lower(e.ext) \in {".xbrl", ".xml"}

\* e == "reports/report.json" or e.endswith("/reports/report.json")
IsReportJson(e) ==
    /\ e.base = "report" /\ e.ext = ".json"
    /\ Len(e.dirs) >= 1 /\ e.dirs[Len(e.dirs)] = "reports"

\* A detection that looks for the instance at the archive root first.
_detect_zip_format_xml_first(archive) ==
    IF archive.bad THEN Raise("ValueError")
    ELSE LET xbrl_files ==
                 SelectSeq(archive.names, LAMBDA e : IsInstanceName(e) /\ e.dirs = <<>>)
         IN IF Len(xbrl_files) = 1 THEN Value("xml")
            ELSE IF \E k \in 1..Len(archive.names) : IsReportJson(archive.names[k])
            THEN Value("csv")
            ELSE Raise("ValueError")

_detect_zip_format(archive) ==
    IF archive.bad THEN Raise("ValueError")
    ELSE IF \E k \in 1..Len(archive.names) : IsReportJson(archive.names[k])
         THEN Value("csv")
    ELSE LET xbrl_files ==
                 SelectSeq(archive.names, LAMBDA e : IsInstanceName(e) /\ e.dirs = <<>>)
              IN IF Len(xbrl_files) = 1 THEN Value("xml")
            ELSE IF Len(xbrl_files) > 1 THEN Raise("ValueError")
            ELSE Raise("ValueError")

_detect_format(f) ==
    LET suffix == Lower(f.suffix) IN
    IF suffix \in {".xbrl", ".xml"} THEN Value("xml")
    ELSE IF suffix = ".zip" THEN _detect_zip_format(f.archive)
    ELSE Raise("ValueError")

\* _extract_xml_from_zip: the directory is made first; the files at its top
\* level with an instance suffix are counted afterwards.
_extract_xml_from_zip(archive) ==
    LET xbrl_files ==
            SelectSeq(archive.names, LAMBDA e : e.dirs = <<>> /\ IsInstanceName(e))
    IN IF Len(xbrl_files) # 1 THEN Raise("ValueError") ELSE Value(xbrl_files[1])

\* ------------------------------------------------------------ module load
_load_index(env) == IF ~env.index_exists THEN {} ELSE env.index

_try_load_module(env, module_ref) ==
    IF module_ref = None THEN NoObject
    ELSE IF module_ref \notin _load_index(env) THEN NoObject
    ELSE IF module_ref \notin env.module_files THEN NoObject
    ELSE [url |-> module_ref]

\* _try_parse_xml / _try_parse_csv: the instance, or None when the loader
\* raises.
_try_parse(content) ==
    IF content.instance_ok THEN [root |-> [content |-> content],
                                 module_ref |-> content.module_ref]
    ELSE NoObject


\* ------------------------------------------------- implementation registry
Decorator(code, format, func) == [code |-> code, format |-> format, func |-> func]

\* The @rule_impl decorators of each module of the rules package, in
\* source order.
ModuleDecorators(m) ==
    CASE m = "eba_additional" ->
      <<Decorator("EBA-2.5", None, "check_no_comments"),
         Decorator("EBA-2.16.1", None, "check_no_multi_unit_facts"),
         Decorator("EBA-2.24", None, "check_basic_iso4217"),
         Decorator("EBA-2.25", None, "check_no_footnote_links")>>
      [] m = "eba_currency" ->
      <<Decorator("EBA-CUR-001", "xml", "check_single_reporting_currency_xml"),
         Decorator("EBA-CUR-002", "xml", "check_denomination_currency_xml"),
         Decorator("EBA-CUR-003", "xml", "check_currency_dimension_consistency_xml")>>
      [] m = "eba_decimals" ->
      <<Decorator("EBA-DEC-001", "xml", "check_monetary_decimals_xml"),
         Decorator("EBA-DEC-002", "xml", "check_percentage_decimals_xml"),
         Decorator("EBA-DEC-003", "xml", "check_integer_decimals_xml"),
         Decorator("EBA-DEC-004", "xml", "check_realistic_decimals_xml")>>
      [] m = "eba_entity" ->
      <<Decorator("EBA-ENTITY-001", "xml", "check_entity_scheme_xml"),
         Decorator("EBA-ENTITY-002", "xml", "check_entity_value_xml")>>
      [] m = "eba_guidance" ->
      <<Decorator("EBA-GUIDE-001", None, "check_unused_namespace_prefixes"),
         Decorator("EBA-GUIDE-002", None, "check_canonical_prefixes"),
         Decorator("EBA-GUIDE-003", None, "check_unused_fact_ids"),
         Decorator("EBA-GUIDE-004", None, "check_excessive_string_length"),
         Decorator("EBA-GUIDE-005", None, "check_namespace_declarations_on_root"),
         Decorator("EBA-GUIDE-006", None, "check_multiple_prefixes_same_namespace"),
         Decorator("EBA-GUIDE-007", None, "check_leading_trailing_whitespace")>>
      [] m = "eba_naming" ->
      <<Decorator("EBA-NAME-001", None, "check_file_name_structure"),
         Decorator("EBA-NAME-010", None, "check_report_subject_lei"),
         Decorator("EBA-NAME-011", None, "check_report_subject_lei_suffix"),
         Decorator("EBA-NAME-012", None, "check_report_subject_country_aggregate"),
         Decorator("EBA-NAME-013", None, "check_report_subject_authority_aggregate"),
         Decorator("EBA-NAME-014", None, "check_report_subject_mica"),
         Decorator("EBA-NAME-020", None, "check_country_code"),
         Decorator("EBA-NAME-030", None, "check_framework_version"),
         Decorator("EBA-NAME-040", None, "check_module_name"),
         Decorator("EBA-NAME-050", None, "check_reference_date"),
         Decorator("EBA-NAME-060", None, "check_creation_timestamp"),
         Decorator("EBA-NAME-070", None, "check_inner_xbrl_name")>>
      [] m = "eba_units" ->
      <<Decorator("EBA-UNIT-001", "xml", "check_pure_unit_xml"),
         Decorator("EBA-UNIT-002", "xml", "check_decimal_notation_xml")>>
      [] m = "xml_context" ->
      <<Decorator("XML-030", None, "check_period_date_format"),
         Decorator("XML-031", None, "check_periods_are_instants"),
         Decorator("XML-032", None, "check_single_reference_date"),
         Decorator("XML-033", None, "check_identical_identifiers"),
         Decorator("XML-034", None, "check_no_segments"),
         Decorator("XML-035", None, "check_scenario_dimension_only")>>
      [] m = "xml_document" ->
      <<Decorator("XML-060", None, "check_no_xml_base"),
         Decorator("XML-061", None, "check_no_linkbase_ref"),
         Decorator("XML-062", None, "check_no_forever"),
         Decorator("XML-063", None, "check_no_schema_location"),
         Decorator("XML-064", None, "check_no_xi_include"),
         Decorator("XML-065", None, "check_no_standalone"),
         Decorator("XML-066", None, "check_unused_contexts"),
         Decorator("XML-067", None, "check_duplicate_contexts"),
         Decorator("XML-068", None, "check_unused_units"),
         Decorator("XML-069", None, "check_duplicate_units")>>
      [] m = "xml_encoding" ->
      <<Decorator("XML-002", None, "check_utf8_encoding")>>
      [] m = "xml_facts" ->
      <<Decorator("XML-040", None, "check_no_precision"),
         Decorator("XML-041", None, "check_decimals_value"),
         Decorator("XML-042", None, "check_no_xsi_nil"),
         Decorator("XML-043", None, "check_no_empty_string_facts")>>
      [] m = "xml_filing_indicators" ->
      <<Decorator("XML-020", None, "check_f_indicators_present"),
         Decorator("XML-021", None, "check_filing_indicator_exists"),
         Decorator("XML-024", None, "check_filing_indicator_values"),
         Decorator("XML-025", None, "check_duplicate_filing_indicators"),
         Decorator("XML-026", None, "check_filing_indicator_context")>>
      [] m = "xml_root_element" ->
      <<Decorator("XML-003", None, "check_root_element")>>
      [] m = "xml_schema_ref" ->
      <<Decorator("XML-010", None, "check_single_schema_ref"),
         Decorator("XML-012", None, "check_schema_ref_entry_point")>>
      [] m = "xml_taxonomy" ->
      <<Decorator("XML-070", None, "check_valid_concepts"),
         Decorator("XML-071", None, "check_valid_dimensions"),
         Decorator("XML-072", None, "check_valid_members")>>
      [] m = "xml_units" ->
      <<Decorator("XML-050", None, "check_utr_units")>>
      [] m = "xml_wellformedness" ->
      <<Decorator("XML-001", None, "check_xml_wellformedness")>>

\* rules/__init__.py: the modules the package imports, in order.
RulesPackageImports ==
    <<"eba_entity", "xml_context", "xml_document", "xml_encoding", "xml_facts",
      "xml_filing_indicators", "xml_root_element", "xml_schema_ref",
      "xml_taxonomy", "xml_units", "xml_wellformedness">>

\* A decorator that binds the key whether or not it is bound.
rule_impl_overwriting(reg, d) ==
    LET key == <<d.code, d.format>> IN
    Value([k \in DOMAIN reg \cup {key} |-> IF k = key THEN d.func ELSE reg[k]])

\* rule_impl(code, format)(func): ValueError when the key is registered,
\* otherwise the registry with the key bound to func.
rule_impl(reg, d) ==
    LET key == <<d.code, d.format>> IN
    IF key \in DOMAIN reg THEN [ok |-> FALSE, error |-> "ValueError", value |-> reg]
    ELSE Value(reg @@ (key :> d.func))

\* Executing the decorators ds[i..] of one module in order; the first
\* ValueError stops, the registrations made so far stay.
RECURSIVE register_all(_, _, _)
register_all(reg, ds, i) ==
    IF i > Len(ds) THEN Value(reg)
    ELSE LET r == rule_impl(reg, ds[i]) IN
         IF ~r.ok THEN r ELSE register_all(r.value, ds, i + 1)

\* importlib.import_module("xbridge.validation.rules"): the modules named in
\* rules/__init__.py that are not yet in sys.modules run their decorators,
\* in order; a module whose import raises is not entered.
RECURSIVE import_rules(_, _, _)
import_rules(reg, imported, i) ==
    IF i > Len(RulesPackageImports) THEN [ok |-> TRUE, reg |-> reg, imported |-> imported]
    ELSE LET m == RulesPackageImports[i] IN
         IF m \in imported THEN import_rules(reg, imported, i + 1)
         ELSE LET r == register_all(reg, ModuleDecorators(m), 1) IN
              IF ~r.ok THEN [ok |-> FALSE, reg |-> r.value, imported |-> imported]
              ELSE import_rules(r.value, imported \cup {m}, i + 1)

\* get_rule_impl looking at every key of the code.
get_rule_impl_any_format(reg, code, format) ==
    IF <<code, format>> \in DOMAIN reg THEN reg[<<code, format>>]
    ELSE IF <<code, None>> \in DOMAIN reg THEN reg[<<code, None>>]
    ELSE IF \E k \in DOMAIN reg : k[1] = code
    THEN reg[CHOOSE k \in DOMAIN reg : k[1] = code]
    ELSE None

\* get_rule_impl: _impl_registry.get((code, format)) or
\* _impl_registry.get((code, None)).
get_rule_impl(reg, code, format) ==
    IF <<code, format>> \in DOMAIN reg THEN reg[<<code, format>>]
    ELSE IF <<code, None>> \in DOMAIN reg THEN reg[<<code, None>>]
    ELSE None

\* ------------------------------------------------------ ValidationContext
\* The parameters ValidationContext.__init__ accepts, and those it requires.
CtxParams ==
    {"rule_set", "rule_definition", "file_path", "raw_bytes", "xml_instance",
     "csv_instance", "module"}
CtxRequired == {"rule_set", "rule_definition", "file_path", "raw_bytes"}

\* ValidationContext(**kwargs): TypeError for a keyword __init__ does not
\* accept or a required one that is missing; otherwise the object, with one
\* attribute per parameter (None by default) and an empty _findings.
ValidationContext(kwargs) ==
    IF ~(DOMAIN kwargs \subseteq CtxParams) \/ ~(CtxRequired \subseteq DOMAIN kwargs)
    THEN Raise("TypeError")
    ELSE Value([a \in CtxParams \cup {"_findings"} |->
                  IF a = "_findings" THEN <<>>
                  ELSE IF a \in DOMAIN kwargs THEN kwargs[a] ELSE NoObject])

\* A severity that takes the csv override in every rule set.
effective_severity_any_rule_set(rd, rs) ==
    IF rd.csv_severity # None THEN rd.csv_severity ELSE rd.severity

\* RuleDefinition.effective_severity / effective_message.
effective_severity(rd, rs) ==
    IF rs = "csv" /\ rd.csv_severity # None THEN rd.csv_severity ELSE rd.severity

effective_message(rd, rs) ==
    IF rs = "csv" /\ rd.csv_message # NoObject THEN rd.csv_message ELSE rd.message

\* template.format_map(_DefaultFormatDict(context)): a placeholder whose
\* name is a key is replaced by the value, a missing one by "{name}".
RECURSIVE format_map(_, _)
format_map(template, context) ==
    IF template.tokens = <<>> THEN Template(<<>>)
    ELSE LET t == Head(template.tokens)
             piece == IF "placeholder" \notin DOMAIN t THEN t
                      ELSE IF t.placeholder \in DOMAIN context
                           THEN Text(context[t.placeholder])
                           ELSE Braced(t.placeholder)
         IN Template(<<piece>> \o format_map(Template(Tail(template.tokens)), context).tokens)

\* The exception template.format_map(_DefaultFormatDict(context)) raises,
\* or None: str.format_map refuses positional fields and single braces, and
\* a format spec of a number type is applied to the value, a str for every
\* key of the contexts here and for a missing key ("{name}").
RECURSIVE format_map_raises(_, _)
format_map_raises(template, context) ==
    IF template.tokens = <<>> THEN None
    ELSE LET t == Head(template.tokens) IN
         IF "positional" \in DOMAIN t \/ "lone_brace" \in DOMAIN t THEN "ValueError"
         ELSE IF "spec" \in DOMAIN t /\ t.spec = "d" THEN "ValueError"
         ELSE format_map_raises(Template(Tail(template.tokens)), context)

ValidationResult(rule_id, severity, rs, message, location, context) ==
    [rule_id |-> rule_id, severity |-> severity, rule_set |-> rs,
     message |-> message, location |-> location, context |-> context]

\* One call of a rule body to ctx.add_finding.
Call(location, context, rule_code) ==
    [location |-> location, context |-> context, rule_code |-> rule_code]

\* The exception that leaves ValidationContext.add_finding, or None.
add_finding_raises(ctx, call) ==
    IF call.context = NoObject THEN None
    ELSE format_map_raises(effective_message(ctx["rule_definition"], ctx["rule_set"]),
                           call.context)

\* ValidationContext.add_finding when nothing is raised: the context with
\* one more finding.
add_finding(ctx, call) ==
    LET rd == ctx["rule_definition"]
        code == IF call.rule_code # None THEN call.rule_code ELSE rd.code
        template == effective_message(rd, ctx["rule_set"])
        severity == effective_severity(rd, ctx["rule_set"])
        message == IF call.context # NoObject THEN format_map(template, call.context)
                   ELSE template
    IN [ctx EXCEPT !["_findings"] =
            Append(@, ValidationResult(code, severity, ctx["rule_set"], message,
                                       call.location, call.context))]

RECURSIVE add_findings(_, _)
add_findings(ctx, calls) ==
    IF calls = <<>> THEN ctx
    ELSE add_findings(add_finding(ctx, Head(calls)), Tail(calls))


\* ------------------------------------------------------------ rule bodies
\* What a rule body did: the exception that left it (or None) and its calls
\* to ctx.add_finding, in order.
Body(raised, calls) == [raised |-> raised, calls |-> calls]

Detail(d) == [detail |-> d]

\* check_xml_wellformedness (XML-001).
check_xml_wellformedness(ctx) ==
    IF "xml_root" \notin DOMAIN ctx THEN Body("AttributeError", <<>>)
    ELSE IF ctx["xml_root"] # NoObject THEN Body(None, <<>>)
    ELSE IF ctx["raw_bytes"].wellformed THEN Body(None, <<>>)
    ELSE Body(None, <<Call("file:line:col", Detail("XMLSyntaxError"), None)>>)

\* check_utf8_encoding (XML-002).
check_utf8_encoding(ctx) ==
    IF ctx["raw_bytes"].encoding = None THEN Body(None, <<>>)
    ELSE IF Lower(ctx["raw_bytes"].encoding) = "utf-8" THEN Body(None, <<>>)
    ELSE Body(None, <<Call("file:1", Detail(ctx["raw_bytes"].encoding), None)>>)

\* check_filing_indicator_values (XML-024): nothing without a module or
\* with bytes that do not parse; otherwise one finding per filing indicator
\* that is not a code of the module.
check_filing_indicator_values(ctx) ==
    IF ctx["module"] = NoObject THEN Body(None, <<>>)
    ELSE IF ~ctx["raw_bytes"].wellformed THEN Body(None, <<>>)
    ELSE Body(None, [k \in 1..ctx["raw_bytes"].unknown_indicators |->
                        Call("file", Detail("indicator"), None)])

\* check_valid_concepts (XML-070) through _get_scan: nothing without a root
\* or a module; otherwise one finding per unknown concept of the scan (here
\* the scan of the context's own root; the slots _get_scan goes through are
\* modelled with the scan caches below).
check_valid_concepts(ctx) ==
    IF "xml_root" \notin DOMAIN ctx THEN Body("AttributeError", <<>>)
    ELSE IF ctx["xml_root"] = NoObject \/ ctx["module"] = NoObject THEN Body(None, <<>>)
    ELSE Body(None, [k \in 1..ctx["xml_root"].content.unknown_concepts |->
                        Call("fact", Detail("concept"), None)])

\* Calling the registered function named func.
impl(func, ctx) ==
    CASE func = "check_xml_wellformedness" -> check_xml_wellformedness(ctx)
      [] func = "check_utf8_encoding" -> check_utf8_encoding(ctx)
      [] func = "check_filing_indicator_values" -> check_filing_indicator_values(ctx)
      [] func = "check_valid_concepts" -> check_valid_concepts(ctx)


\* --------------------------------------------------------- run_validation
\* A catalog as load_registry returns it, in registry.json order; the
\* implementations of its XML rules are in the rules package, that of
\* EBA-DEC-001 in eba_decimals, and CSV-001 has none.
BaseCatalog ==
    <<RuleDefinition("XML-001", DetailMessage, "ERROR", TRUE, FALSE, FALSE, FALSE, None, NoObject),
      RuleDefinition("XML-002", DetailMessage, "ERROR", TRUE, FALSE, FALSE, FALSE, None, NoObject),
      RuleDefinition("XML-024", DetailMessage, "ERROR", TRUE, FALSE, FALSE, FALSE, None, NoObject),
      RuleDefinition("XML-070", DetailMessage, "ERROR", TRUE, FALSE, FALSE, FALSE, None, NoObject),
      RuleDefinition("EBA-DEC-001", DetailMessage, "ERROR", TRUE, TRUE, TRUE, TRUE,
                     "WARNING", CsvDetailMessage),
      RuleDefinition("CSV-001", DetailMessage, "ERROR", FALSE, TRUE, FALSE, FALSE, None, NoObject)>>

\* The catalogs the engine is run with: the base catalog and its tails.
Catalogs == { SubSeq(BaseCatalog, k, Len(BaseCatalog)) : k \in 1..(Len(BaseCatalog) + 1) }

\* The keywords run_validation passes to ValidationContext.
EngineKwargs ==
    {"rule_set", "rule_definition", "file_path", "raw_bytes", "xml_instance",
     "csv_instance", "module", "xml_root", "zip_path"}

Job(file_path, raw_bytes, xml_instance, csv_instance, module, xml_root, zip_path) ==
    [file_path |-> file_path, raw_bytes |-> raw_bytes, xml_instance |-> xml_instance,
     csv_instance |-> csv_instance, module |-> module, xml_root |-> xml_root,
     zip_path |-> zip_path]

\* run_validation up to the rule loop: the position reached and the locals.
Begun(p, err, rs, sel, j, td, reg, imported) ==
    [pc |-> p, error |-> err, rule_set |-> rs, selected |-> sel, job |-> j,
     temp_dir |-> td, impl_registry |-> reg, rules_imported |-> imported]

run_validation_begin(f, e, postconv) ==
    LET fmt == _detect_format(f)
        failed(exc, td) ==
            Begun("raised", exc, None, <<>>, NoObject, td, impl_registry, rules_imported)
    IN
    IF ~f.exists THEN failed("FileNotFoundError", None)
    ELSE IF ~fmt.ok THEN failed(fmt.error, None)
    ELSE
    LET rs == fmt.value
        is_zip == Lower(f.suffix) = ".zip"
        zip_path == IF is_zip THEN "file_path" ELSE None
        extracted == IF is_zip /\ rs = "xml" THEN _extract_xml_from_zip(f.archive)
                     ELSE Value(None)
        td == IF is_zip /\ rs = "xml" THEN "exists" ELSE None
    IN
    IF ~extracted.ok THEN failed(extracted.error, td)
    ELSE
    LET raw_bytes == f.content
        sel == select_rules(registry, rs, e, postconv)
        inst == _try_parse(f.content)
        xml_instance == IF rs = "xml" THEN inst ELSE NoObject
        csv_instance == IF rs = "csv" THEN inst ELSE NoObject
        xml_root == IF rs # "xml" THEN NoObject
                    ELSE IF inst # NoObject THEN inst.root
                    ELSE IF raw_bytes.wellformed THEN [content |-> raw_bytes]
                    ELSE NoObject
        module == IF inst # NoObject THEN _try_load_module(taxonomy_env, inst.module_ref)
                  ELSE NoObject
        imp == import_rules(impl_registry, rules_imported, 1)
        j == Job("file_path", raw_bytes, xml_instance, csv_instance, module,
                 xml_root, zip_path)
    IN
    IF ~imp.ok THEN Begun("raised", "ValueError", rs, sel, j, td, imp.reg, imp.imported)
    ELSE Begun("loop", None, rs, sel, j, td, imp.reg, imp.imported)

StartRun(f, e, postconv) ==
    LET b == run_validation_begin(f, e, postconv) IN
    /\ file' = f
    /\ eba' = e
    /\ post_conversion' = postconv
    /\ pc' = b.pc
    /\ error' = b.error
    /\ rule_set' = b.rule_set
    /\ selected' = b.selected
    /\ job' = b.job
    /\ temp_dir' = b.temp_dir
    /\ impl_registry' = b.impl_registry
    /\ rules_imported' = b.rules_imported
    /\ idx' = 1
    /\ all_findings' = <<>>
    /\ UNCHANGED <<registry, taxonomy_env, direct_vars, cache_vars>>

\* run_validation(file, eba, post_conversion) is called.
RunValidation ==
    /\ pc = "idle"
    /\ \E f \in EngineFiles, e \in BOOLEAN, postconv \in BOOLEAN : StartRun(f, e, postconv)
    /\ run_no' = 1
    /\ prev' = NoObject

\* The keyword arguments of the ValidationContext(...) call in the loop.
context_kwargs(rule) ==
    [a \in EngineKwargs |->
        IF a = "rule_set" THEN rule_set
        ELSE IF a = "rule_definition" THEN rule
        ELSE job[a]]

\* One iteration of `for rule in selected`.
ExecRule ==
    /\ pc = "loop"
    /\ idx <= Len(selected)
    /\ LET rule == selected[idx]
           func == get_rule_impl(impl_registry, rule.code, rule_set)
           made == ValidationContext(context_kwargs(rule))
       IN IF func = None
          THEN /\ idx' = idx + 1
               /\ UNCHANGED <<pc, error, all_findings>>
          ELSE IF ~made.ok
          THEN /\ pc' = "raised"
               /\ error' = made.error
               /\ UNCHANGED <<idx, all_findings>>
          ELSE LET body == impl(func, made.value)
                   ctx == add_findings(made.value, body.calls)
               IN IF body.raised # None
                  THEN /\ pc' = "raised"
                       /\ error' = body.raised
                       /\ UNCHANGED <<idx, all_findings>>
                  ELSE /\ all_findings' = all_findings \o ctx["_findings"]
                       /\ idx' = idx + 1
                       /\ UNCHANGED <<pc, error>>
    /\ UNCHANGED <<registry, taxonomy_env, process_vars, file, rule_set, eba,
                   post_conversion, selected, job, temp_dir, run_no, prev>>
    /\ UNCHANGED <<direct_vars, cache_vars>>

\* `return all_findings`.
Return ==
    /\ pc = "loop"
    /\ idx > Len(selected)
    /\ pc' = "returned"
    /\ UNCHANGED <<registry, taxonomy_env, process_vars, file, rule_set, eba,
                   post_conversion, selected, idx, all_findings, job, temp_dir,
                   error, run_no, prev, direct_vars, cache_vars>>

\* ValidationResult.to_dict: the fields under their names, the severity as
\* its value.
to_dict(f) ==
    [rule_id |-> f.rule_id, severity |-> f.severity, rule_set |-> f.rule_set,
     message |-> f.message, location |-> f.location, context |-> f.context]

\* dict(defaultdict(list)) after the loop of validate appended the to_dict()
\* of every finding under its rule_id: those of severity ERROR (is_error) or
\* the others.
by_rule_id(findings, is_error) ==
    LET kept == SelectSeq(findings, LAMBDA f : (f.severity = "ERROR") = is_error)
    IN [code \in { kept[k].rule_id : k \in 1..Len(kept) } |->
           LET of_code == SelectSeq(kept, LAMBDA f : f.rule_id = code)
           IN [k \in 1..Len(of_code) |-> to_dict(of_code[k])]]

\* validate(file, eba, post_conversion) once run_validation is over: the
\* exception of run_validation, or the two dicts.
validate ==
    IF pc # "returned" THEN Raise(error)
    ELSE Value([errors |-> by_rule_id(all_findings, TRUE),
                warnings |-> by_rule_id(all_findings, FALSE)])

\* Iterating the dict validate returns: its keys, which are strings.
Iterate(results) == <<"errors", "warnings">>

\* r.severity or r.to_dict() for every r the iteration yields: a str has
\* neither, so the first item raises AttributeError.
EachFinding(items) == IF items = <<>> THEN Value(<<>>) ELSE Raise("AttributeError")

\* __main__._validate_main once validate is over: the exit status of the
\* process. sys.exit(1) for a missing file and for ValueError; an exception
\* nothing catches ends the interpreter with status 1; 0 when the function
\* returns.
_validate_main(json_output) ==
    IF ~file.exists THEN 1
    ELSE IF ~validate.ok THEN 1
    ELSE LET results == validate.value
             printed == IF json_output THEN EachFinding(Iterate(results))
                        ELSE IF DOMAIN results = {} THEN Value(<<>>)
                        ELSE EachFinding(Iterate(results))
         IN IF ~printed.ok THEN 1
            ELSE IF ~EachFinding(Iterate(results)).ok THEN 1
            ELSE 0

Outcome(p, err, findings) == [pc |-> p, error |-> err, findings |-> findings]

\* The caller has the result or the exception and calls run_validation
\* again with the same arguments.
RunValidationAgain ==
    /\ pc \in {"returned", "raised"}
    /\ run_no = 1
    /\ prev' = Outcome(pc, error, all_findings)
    /\ StartRun(file, eba, post_conversion)
    /\ run_no' = 2

\* The caller has the result or the exception and is done with this input;
\* the locals of the call are gone.
Finish ==
    /\ pc \in {"returned", "raised"}
    /\ pc' = "idle"
    /\ file' = NoObject
    /\ eba' = FALSE
    /\ post_conversion' = FALSE
    /\ rule_set' = None
    /\ selected' = <<>>
    /\ idx' = 0
    /\ all_findings' = <<>>
    /\ job' = NoObject
    /\ temp_dir' = None
    /\ error' = None
    /\ run_no' = 1
    /\ prev' = NoObject
    /\ UNCHANGED <<registry, taxonomy_env, process_vars, direct_vars, cache_vars>>

\* Nothing has been imported, nothing is running.
Idle ==
    /\ impl_registry = <<>>
    /\ rules_imported = {}
    /\ file = NoObject
    /\ rule_set = None
    /\ eba = FALSE
    /\ post_conversion = FALSE
    /\ selected = <<>>
    /\ idx = 0
    /\ all_findings = <<>>
    /\ job = NoObject
    /\ temp_dir = None
    /\ error = None
    /\ run_no = 1
    /\ prev = NoObject
    /\ direct_ctx = NoObject
    /\ CacheInit
    /\ pc = "idle"

Init ==
    /\ registry \in Catalogs
    /\ taxonomy_env \in TaxonomyEnvs
    /\ Idle

Next == RunValidation \/ RunValidationAgain \/ ExecRule \/ Return \/ Finish

Spec == Init /\ [][Next]_vars


\* ------------------------------------------- ValidationContext used directly
\* A caller (a rule's test, an embedding program) builds a ValidationContext
\* for a rule of the loaded catalog with the keywords __init__ accepts and
\* calls add_finding on it.
MaxFindings == 2

\* The rule_code arguments: none, a catalog code, and the code the context
\* tests pass.
OverrideCodes == {None, "XML-002", "OTHER-001"}

FindingContexts == {NoObject, Detail("x"), [line |-> "3"]}

NewContext ==
    /\ pc = "idle"
    /\ \E k \in 1..Len(registry), rs \in RuleSets :
         LET kwargs == [a \in CtxRequired |->
                          IF a = "rule_set" THEN rs
                          ELSE IF a = "rule_definition" THEN registry[k]
                          ELSE IF a = "raw_bytes" THEN NoContent
                          ELSE "file_path"]
             made == ValidationContext(kwargs)
         IN /\ made.ok
            /\ direct_ctx' = made.value
    /\ pc' = "direct"
    /\ UNCHANGED <<engine_vars, cache_vars>>

AddFinding ==
    /\ pc = "direct"
    /\ Len(direct_ctx["_findings"]) < MaxFindings
    /\ \E context \in FindingContexts, rule_code \in OverrideCodes :
         LET call == Call("/root", context, rule_code)
             exc == add_finding_raises(direct_ctx, call)
         IN IF exc # None
            THEN error' = exc /\ UNCHANGED direct_ctx
            ELSE error' = None /\ direct_ctx' = add_finding(direct_ctx, call)
    /\ UNCHANGED <<registry, taxonomy_env, process_vars, file, idx, all_findings, job,
                   temp_dir, run_no, prev, rule_set, eba, post_conversion, selected,
                   cache_vars, pc>>

\* The caller drops the context.
DropContext ==
    /\ pc = "direct"
    /\ direct_ctx' = NoObject
    /\ error' = None
    /\ pc' = "idle"
    /\ UNCHANGED <<registry, taxonomy_env, process_vars, file, idx, all_findings, job,
                   temp_dir, run_no, prev, rule_set, eba, post_conversion, selected,
                   cache_vars>>

NextContext == NewContext \/ AddFinding \/ DropContext

InitContext ==
    /\ registry \in Catalogs
    /\ taxonomy_env = TaxonomyEnv(FALSE, {}, {})
    /\ Idle

SpecContext == InitContext /\ [][NextContext]_vars

\* The same caller with a catalog of one rule whose message template is any
\* sequence of up to MaxTokens tokens.
MaxTokens == 2

RenderTokens ==
    {Text("a"), Placeholder("detail"), Placeholder("line"), Typed("line", "d"),
     Positional, LoneBrace}

RenderTemplates ==
    { Template(tokens) : tokens \in UNION { [1..n -> RenderTokens] : n \in 1..MaxTokens } }

InitRender ==
    /\ registry \in { <<RuleDefinition("TEST-001", t, "ERROR", TRUE, TRUE, FALSE, FALSE,
                                       None, NoObject)>> : t \in RenderTemplates }
    /\ taxonomy_env = TaxonomyEnv(FALSE, {}, {})
    /\ Idle

SpecRender == InitRender /\ [][NextContext]_vars


\* ================================================ the rules' scan caches
\* Jobs that run the rule functions of xml_document, xml_taxonomy and
\* eba_decimals on a root element and a module, one job after the other in
\* one process. Every job parses its own root and loads its own module; the
\* objects of a finished job live on only while a cache refers to them, and
\* a new object may get the address of one of its kind that is gone.
MaxJobs == 3
MaxAddr == 3

Addrs == 1..MaxAddr

\* A Python object: its identity, the address id() returns while it lives,
\* and its value.
Object(oid, addr, value) == [oid |-> oid, addr |-> addr, value |-> value]

ValueOf(obj) == IF obj = NoObject THEN NoObject ELSE obj.value

\* A child of the root: its tag in Clark notation.
Fact(ns, ln) == [ns |-> ns, ln |-> ln]

\* A prefixed name of the module.
QName(prefix, ln) == [prefix |-> prefix, ln |-> ln]

\* An instance document as the scans read it: the URI root.nsmap binds to
\* the prefix met (or None), the facts in document order, the ids of the
\* contexts, the ids facts refer to and the key (_context_key) of each
\* context.
Document(met, facts, ctx_ids, used_ctx_ids, ctx_keys) ==
    [met |-> met, facts |-> facts, ctx_ids |-> ctx_ids, used_ctx_ids |-> used_ctx_ids,
     ctx_keys |-> ctx_keys]

CacheDocuments ==
    { Document("u1", <<Fact("u1", "a")>>, <<"c1">>, {"c1"}, [cid \in {"c1"} |-> "k1"]),
      Document("u1", <<Fact("u1", "b")>>, <<"c1", "c2">>, {"c1"},
               [cid \in {"c1", "c2"} |-> "k1"]),
      Document("u2", <<Fact("u2", "a")>>, <<"c1">>, {"c1"}, [cid \in {"c1"} |-> "k1"]) }

\* A taxonomy module: the concept of each variable and its type attribute.
TaxonomyModule(concepts, attributes) == [concepts |-> concepts, attributes |-> attributes]

CacheModules ==
    { TaxonomyModule({QName("met", "a")}, "monetary"),
      TaxonomyModule({QName("met", "a"), QName("met", "b")}, "percentage") }


\* xml_taxonomy._resolve_qname with the nsmap of a document.
_resolve_qname(qname, met) ==
    IF qname.prefix # "met" \/ met = None THEN NoObject
    ELSE Fact(met, qname.ln)

\* xml_taxonomy._extract_taxonomy: the concepts that resolve.
_extract_taxonomy(module, met) ==
    [valid_concepts |->
        { _resolve_qname(q, met) : q \in module.concepts } \ {NoObject}]

\* xml_taxonomy._get_taxonomy: the slot is compared by id(module).
_get_taxonomy(module, met, last) ==
    IF last # NoObject /\ last.mid = module.addr
    THEN [result |-> last.result, last |-> last, hit |-> TRUE]
    ELSE LET result == _extract_taxonomy(module.value, met)
         IN [result |-> result, last |-> [mid |-> module.addr, result |-> result],
             hit |-> FALSE]

\* The pass of xml_taxonomy._scan over the tree.
taxonomy_pass(doc, taxonomy) ==
    [unknown_concepts |->
        LET unknown == SelectSeq(doc.facts, LAMBDA f : f \notin taxonomy.valid_concepts)
        IN [k \in 1..Len(unknown) |-> unknown[k].ln]]

\* xml_taxonomy._scan: the slot is compared by id(root).
xml_taxonomy_scan(root, taxonomy, last) ==
    IF last # NoObject /\ last.rid = root.addr
    THEN [result |-> last.result, last |-> last, hit |-> TRUE]
    ELSE LET r == taxonomy_pass(root.value, taxonomy)
         IN [result |-> r, last |-> [rid |-> root.addr, result |-> r], hit |-> FALSE]

\* xml_taxonomy._get_scan.
_get_scan(root, module, last_taxonomy, last_scan) ==
    IF root = NoObject \/ module = NoObject
    THEN [result |-> NoObject, last_taxonomy |-> last_taxonomy, last_scan |-> last_scan,
          taxonomy_hit |-> FALSE, scan_hit |-> FALSE]
    ELSE LET t == _get_taxonomy(module, root.value.met, last_taxonomy)
             sc == xml_taxonomy_scan(root, t.result, last_scan)
         IN [result |-> sc.result, last_taxonomy |-> t.last, last_scan |-> sc.last,
             taxonomy_hit |-> t.hit, scan_hit |-> sc.hit]

\* The pass of xml_document._scan over the tree.
document_pass(doc) ==
    [ctx_ids |-> doc.ctx_ids, used_ctx_ids |-> doc.used_ctx_ids, ctx_keys |-> doc.ctx_keys]

\* xml_document._scan: the slot holds the root and is compared with `is`.
xml_document_scan(root, last) ==
    IF last # NoObject /\ last.root.oid = root.oid
    THEN [result |-> last.result, last |-> last]
    ELSE LET r == document_pass(root.value)
         IN [result |-> r, last |-> [root |-> root, result |-> r]]

\* eba_decimals._build_metric_type_map: the slot holds the module and is
\* compared with `is`.
_build_metric_type_map(module, last) ==
    IF module = NoObject THEN [result |-> <<>>, last |-> last]
    ELSE IF last # NoObject /\ last.module.oid = module.oid
    THEN [result |-> last.result, last |-> last]
    ELSE LET result == [q \in module.value.concepts |-> module.value.attributes]
         IN [result |-> result, last |-> [module |-> module, result |-> result]]

\* The locations check_unused_contexts (XML-066) reports.
unused_contexts(scan) == SelectSeq(scan.ctx_ids, LAMBDA cid : cid \notin scan.used_ctx_ids)

\* The roots something still refers to: that of the running job and the
\* one held by xml_document._last_scan.
LiveRoots ==
    (IF cjob = NoObject THEN {} ELSE {cjob.root})
    \cup (IF xml_document_last_scan = NoObject THEN {}
          ELSE {xml_document_last_scan.root})

\* The modules something still refers to: that of the running job and the
\* one held by eba_decimals._last_type_map.
LiveModules ==
    ((IF cjob = NoObject THEN {} ELSE {cjob.module})
     \cup (IF eba_decimals_last_type_map = NoObject THEN {}
           ELSE {eba_decimals_last_type_map.module}))
    \ {NoObject}

FreeRootAddrs == Addrs \ { o.addr : o \in LiveRoots }

FreeModuleAddrs == Addrs \ { o.addr : o \in LiveModules }

\* A job on an XML instance: the xml_document rules, then the xml_taxonomy
\* rules, then, in EBA mode, the eba_decimals rules.
CacheJob(n, root, module, eba_mode) ==
    [n |-> n, root |-> root, module |-> module, eba |-> eba_mode, step |-> 1,
     document |-> <<>>, taxonomy |-> <<>>, used |-> NoObject]

\* A job begins: the instance is parsed and the module loaded; each new
\* object gets an address no live object has.
StartJob ==
    /\ pc = "idle"
    /\ njobs < MaxJobs
    /\ \E d \in CacheDocuments, m \in CacheModules \cup {NoObject},
          e \in BOOLEAN, ra \in FreeRootAddrs, ma \in FreeModuleAddrs :
         cjob' = CacheJob(njobs + 1, Object(njobs + 1, ra, d),
                          IF m = NoObject THEN NoObject
                          ELSE Object(njobs + 1, ma, m),
                          e)
    /\ njobs' = njobs + 1
    /\ pc' = "job"
    /\ UNCHANGED <<engine_vars, direct_vars, xml_document_last_scan,
                   eba_decimals_last_type_map, xml_taxonomy_last_taxonomy,
                   xml_taxonomy_last_scan, computed_from, pjob>>

\* The xml_document rules of the job (check_unused_contexts).
DocumentRules ==
    /\ pc = "job"
    /\ cjob.step = 1
    /\ LET sc == xml_document_scan(cjob.root, xml_document_last_scan)
       IN /\ xml_document_last_scan' = sc.last
          /\ cjob' = [cjob EXCEPT !.step = 2,
                                  !.document = unused_contexts(sc.result)]
    /\ UNCHANGED <<engine_vars, direct_vars, eba_decimals_last_type_map,
                   xml_taxonomy_last_taxonomy, xml_taxonomy_last_scan,
                   computed_from, pjob, njobs, pc>>

\* The xml_taxonomy rules of the job (check_valid_concepts).
TaxonomyRules ==
    /\ pc = "job"
    /\ cjob.step = 2
    /\ LET g == _get_scan(cjob.root, cjob.module, xml_taxonomy_last_taxonomy,
                          xml_taxonomy_last_scan)
           from_taxonomy ==
               IF cjob.module = NoObject \/ g.taxonomy_hit
               THEN computed_from.taxonomy
               ELSE [module |-> cjob.module.oid, root |-> cjob.root.oid]
           from_scan ==
               IF cjob.module = NoObject \/ g.scan_hit
               THEN computed_from.scan
               ELSE [module |-> from_taxonomy.module, root |-> cjob.root.oid]
       IN /\ xml_taxonomy_last_taxonomy' = g.last_taxonomy
          /\ xml_taxonomy_last_scan' = g.last_scan
          /\ computed_from' = [taxonomy |-> from_taxonomy, scan |-> from_scan]
          /\ cjob' = [cjob EXCEPT
                        !.step = 3,
                        !.taxonomy = IF g.result = NoObject THEN <<>>
                                     ELSE g.result.unknown_concepts,
                        !.used = IF g.result = NoObject THEN NoObject
                                 ELSE from_scan]
    /\ UNCHANGED <<engine_vars, direct_vars, xml_document_last_scan,
                   eba_decimals_last_type_map, pjob, njobs, pc>>

\* The eba_decimals rules of the job.
DecimalsRules ==
    /\ pc = "job"
    /\ cjob.step = 3
    /\ IF cjob.eba
       THEN eba_decimals_last_type_map' =
                _build_metric_type_map(cjob.module, eba_decimals_last_type_map).last
       ELSE UNCHANGED eba_decimals_last_type_map
    /\ cjob' = [cjob EXCEPT !.step = 4]
    /\ UNCHANGED <<engine_vars, direct_vars, xml_document_last_scan,
                   xml_taxonomy_last_taxonomy, xml_taxonomy_last_scan,
                   computed_from, pjob, njobs, pc>>

\* The job is over: its references to the root and the module are gone.
EndJob ==
    /\ pc = "job"
    /\ cjob.step = 4
    /\ pjob' = [doc |-> cjob.root.value, module |-> ValueOf(cjob.module),
                eba |-> cjob.eba, document |-> cjob.document,
                taxonomy |-> cjob.taxonomy]
    /\ cjob' = NoObject
    /\ pc' = "idle"
    /\ UNCHANGED <<engine_vars, direct_vars, xml_document_last_scan,
                   eba_decimals_last_type_map, xml_taxonomy_last_taxonomy,
                   xml_taxonomy_last_scan, computed_from, njobs>>

InitCache ==
    /\ registry = BaseCatalog
    /\ taxonomy_env = TaxonomyEnv(FALSE, {}, {})
    /\ Idle

NextCache == StartJob \/ DocumentRules \/ TaxonomyRules \/ DecimalsRules \/ EndJob

SpecCache == InitCache /\ [][NextCache]_vars


\* =============================================== rule bodies on one root
\* Jobs that call rule functions of xml_document and xml_taxonomy on their
\* root, in any order and any number of times. A scan result is one object
\* shared by the slot and by every rule body that asked for it: what a body
\* does to it is what the next body finds.
MaxRuleJobs == 2

RuleCodes == {"XML-066", "XML-067", "XML-070"}

\* What a rule body did with the scan result it was given: the locations of
\* its findings, in order, and the scan result as the body left it.
Ran(findings, scan) == [findings |-> findings, scan |-> scan]

\* check_unused_contexts (XML-066): reads ctx_ids and used_ctx_ids.
check_unused_contexts(scan) == Ran(unused_contexts(scan), scan)

\* The finding of XML-067 on the context cid: its location and the id its
\* detail names as the original.
DuplicateFinding(cid, original) == [location |-> cid, original |-> original]

\* The loop of check_duplicate_contexts from the k-th context id on; seen
\* is the local dict, as pairs of key and first id.
RECURSIVE duplicate_contexts(_, _, _)
duplicate_contexts(scan, k, seen) ==
    IF k > Len(scan.ctx_ids) THEN <<>>
    ELSE LET cid == scan.ctx_ids[k]
             key == scan.ctx_keys[cid]
         IN IF \E p \in seen : p[1] = key
            THEN <<DuplicateFinding(cid, (CHOOSE p \in seen : p[1] = key)[2])>>
                 \o duplicate_contexts(scan, k + 1, seen)
            ELSE duplicate_contexts(scan, k + 1, seen \cup {<<key, cid>>})

\* A body that empties the list it walks through.
check_duplicate_contexts_consuming(scan) ==
    Ran(duplicate_contexts(scan, 1, {}), [scan EXCEPT !.ctx_ids = <<>>])

\* check_duplicate_contexts (XML-067): reads ctx_ids and ctx_keys; seen is
\* local.
check_duplicate_contexts(scan) == Ran(duplicate_contexts(scan, 1, {}), scan)

\* The loop of check_valid_concepts (XML-070) over the scan it got from
\* _get_scan.
valid_concepts(scan) ==
    IF scan = NoObject THEN Ran(<<>>, scan) ELSE Ran(scan.unknown_concepts, scan)

\* The three slots the rule functions go through.
Slots(document, taxonomy, scan) == [document |-> document, taxonomy |-> taxonomy, scan |-> scan]

\* Calling the rule function of code on a root and a module: its findings
\* and the slots afterwards. The slot refers to the scan result the body
\* was given.
call_rule(code, root, module, slots) ==
    IF code \in {"XML-066", "XML-067"}
    THEN LET sc == xml_document_scan(root, slots.document)
             b == IF code = "XML-066" THEN check_unused_contexts(sc.result)
                  ELSE check_duplicate_contexts(sc.result)
         IN [findings |-> b.findings,
             slots |-> [slots EXCEPT !.document = [sc.last EXCEPT !.result = b.scan]]]
    ELSE LET g == _get_scan(root, module, slots.taxonomy, slots.scan)
             b == valid_concepts(g.result)
         IN [findings |-> b.findings,
             slots |-> [slots EXCEPT
                          !.taxonomy = g.last_taxonomy,
                          !.scan = IF g.result = NoObject THEN g.last_scan
                                   ELSE [g.last_scan EXCEPT !.result = b.scan]]]

CurrentSlots == Slots(xml_document_last_scan, xml_taxonomy_last_taxonomy, xml_taxonomy_last_scan)

\* A job on a root and a module: the slots as the job found them, the rules
\* called so far and what the last call of each rule found.
RulesJob(n, root, module) ==
    [n |-> n, root |-> root, module |-> module, start |-> CurrentSlots, ran |-> {},
     findings |-> [c \in RuleCodes |-> <<>>]]

StartRules ==
    /\ pc = "idle"
    /\ njobs < MaxRuleJobs
    /\ \E d \in CacheDocuments, m \in CacheModules \cup {NoObject},
          ra \in FreeRootAddrs, ma \in FreeModuleAddrs :
         cjob' = RulesJob(njobs + 1, Object(njobs + 1, ra, d),
                          IF m = NoObject THEN NoObject
                          ELSE Object(njobs + 1, ma, m))
    /\ njobs' = njobs + 1
    /\ pc' = "rules"
    /\ UNCHANGED <<engine_vars, direct_vars, xml_document_last_scan,
                   eba_decimals_last_type_map, xml_taxonomy_last_taxonomy,
                   xml_taxonomy_last_scan, computed_from, pjob>>

\* One rule function is called with the context of the job.
CallRule ==
    /\ pc = "rules"
    /\ \E code \in RuleCodes :
         LET c == call_rule(code, cjob.root, cjob.module, CurrentSlots)
         IN /\ xml_document_last_scan' = c.slots.document
            /\ xml_taxonomy_last_taxonomy' = c.slots.taxonomy
            /\ xml_taxonomy_last_scan' = c.slots.scan
            /\ cjob' = [cjob EXCEPT !.ran = @ \cup {code},
                                    !.findings[code] = c.findings]
    /\ UNCHANGED <<engine_vars, direct_vars, eba_decimals_last_type_map,
                   computed_from, pjob, njobs, pc>>

\* The job is over: its references to the root and the module are gone.
EndRules ==
    /\ pc = "rules"
    /\ cjob' = NoObject
    /\ pc' = "idle"
    /\ UNCHANGED <<engine_vars, direct_vars, xml_document_last_scan,
                   eba_decimals_last_type_map, xml_taxonomy_last_taxonomy,
                   xml_taxonomy_last_scan, computed_from, pjob, njobs>>

NextRules == StartRules \/ CallRule \/ EndRules

SpecRules == InitCache /\ [][NextRules]_vars


\* ========================================== the implementation registry
\* Decorators applied and lookups made one after the other on the registry
\* of one process, as the rule modules and the tests of the registry do.
RegCodes == {"TEST-001", "TEST-002"}

Formats == {"xml", "csv"}

Funcs == {"first", "second"}

\* @rule_impl(code, format) is applied to a function: prev keeps the
\* decorator and the registry it found, error the exception or None.
Register ==
    /\ pc = "idle"
    /\ \E code \in RegCodes, format \in Formats \cup {None}, func \in Funcs :
         LET d == Decorator(code, format, func)
             r == rule_impl(impl_registry, d)
         IN /\ impl_registry' = r.value
            /\ error' = IF r.ok THEN None ELSE r.error
            /\ prev' = [decorator |-> d, before |-> impl_registry]
    /\ job' = NoObject
    /\ UNCHANGED <<registry, taxonomy_env, rules_imported, file, idx, all_findings,
                   temp_dir, run_no, rule_set, eba, post_conversion, selected,
                   direct_vars, cache_vars, pc>>

\* get_rule_impl(code, format) is called: job keeps the call and what it
\* returned.
Lookup ==
    /\ pc = "idle"
    /\ \E code \in RegCodes, format \in Formats :
         job' = [code |-> code, format |-> format,
                 result |-> get_rule_impl(impl_registry, code, format)]
    /\ UNCHANGED <<registry, taxonomy_env, process_vars, file, idx, all_findings,
                   temp_dir, error, run_no, prev, rule_set, eba, post_conversion,
                   selected, direct_vars, cache_vars, pc>>

\* The registry is emptied (the teardown of the tests).
ClearRegistry ==
    /\ pc = "idle"
    /\ impl_registry # <<>>
    /\ impl_registry' = <<>>
    /\ error' = None
    /\ prev' = NoObject
    /\ job' = NoObject
    /\ UNCHANGED <<registry, taxonomy_env, rules_imported, file, idx, all_findings,
                   temp_dir, run_no, rule_set, eba, post_conversion, selected,
                   direct_vars, cache_vars, pc>>

NextRegistry == Register \/ Lookup \/ ClearRegistry

SpecRegistry == InitCache /\ [][NextRegistry]_vars


\* ======================================================= the conversion
\* convert_instance on an instance with filing indicators and facts. The
\* converter is not among the files of the repository: the resolver and the
\* filing-indicator validator follow sections 4.C and 4.D of the
\* specification (datapoints architecture), the flags and their defaults
\* follow tests/test_filing_indicator_validation.py.
MaxFacts == 2

Tables == {"R_01.00", "R_09.00"}

\* The datapoints of each table of the module, by metric.
ModuleTables ==
    [t \in Tables |-> IF t = "R_01.00" THEN {"ii774", "ii937", "md103"} ELSE {"ii774"}]

\* The metrics of the facts of an instance; no table has zz000.
Metrics == {"ii774", "ii937", "md103", "zz000"}

\* A filing indicator of a table: filed true, filed false, or absent.
Filed == {"true", "false", "absent"}

Instance(filing_indicators, facts) == [filing_indicators |-> filing_indicators, facts |-> facts]

Instances ==
    { Instance(fi, facts) :
        fi \in [Tables -> Filed],
        facts \in UNION { [1..n -> Metrics] : n \in 0..MaxFacts } }

\* 4.C: the tables that would place the fact.
placing_tables(metric) == { t \in Tables : metric \in ModuleTables[t] }

\* 4.D: the tables whose filing indicator is reported true.
reported_tables(instance) == { t \in Tables : instance.filing_indicators[t] = "true" }

\* Every fact of a table with any filing indicator at all counts as an
\* orphan.
is_orphaned_in_any_table(instance, k) ==
    placing_tables(instance.facts[k]) # {}

\* 4.D: a fact is orphaned iff some non-reported table would place it and
\* no reported table would.
is_orphaned(instance, k) ==
    LET placing == placing_tables(instance.facts[k])
    IN /\ placing \ reported_tables(instance) # {}
       /\ placing \cap reported_tables(instance) = {}

\* What a conversion left: whether it failed, the facts the orphan warning
\* is about, the cells written, as pairs of table and fact, the tables the
\* error or the warning names, and whether the output package exists.
Converted(failed, warned, cells, named, output) ==
    [failed |-> failed, warned |-> warned, cells |-> cells, named |-> named,
     output |-> output]

\* A converter that only ever warns about orphaned facts.
convert_instance_permissive(instance, validate_filing_indicators, strict_validation) ==
    LET orphans == { k \in 1..Len(instance.facts) :
                       /\ placing_tables(instance.facts[k]) # {}
                       /\ placing_tables(instance.facts[k]) \cap reported_tables(instance) = {} }
        cells == { <<t, k>> \in reported_tables(instance) \X (1..Len(instance.facts)) :
                     t \in placing_tables(instance.facts[k]) }
        affected == UNION { placing_tables(instance.facts[k]) : k \in orphans }
    IN IF validate_filing_indicators /\ orphans # {}
       THEN Converted(FALSE, orphans, cells, affected, TRUE)
       ELSE Converted(FALSE, {}, cells, {}, TRUE)

\* convert_instance(instance, validate_filing_indicators, strict_validation):
\* the validator runs after resolution and before writing; the writer makes
\* one CSV for each reported table, with one cell for each fact the table
\* places.
convert_instance(instance, validate_filing_indicators, strict_validation) ==
    LET orphans == { k \in 1..Len(instance.facts) : is_orphaned(instance, k) }
        cells == { <<t, k>> \in reported_tables(instance) \X (1..Len(instance.facts)) :
                     t \in placing_tables(instance.facts[k]) }
        affected == UNION { placing_tables(instance.facts[k]) \ reported_tables(instance) :
                              k \in orphans }
    IN IF validate_filing_indicators /\ orphans # {} /\ strict_validation
       THEN Converted(TRUE, {}, {}, affected, FALSE)
       ELSE IF validate_filing_indicators /\ orphans # {}
       THEN Converted(FALSE, orphans, cells, affected, TRUE)
       ELSE Converted(FALSE, {}, cells, {}, TRUE)

\* An instance is handed to convert_instance with its flags.
StartConversion ==
    /\ pc = "idle"
    /\ \E i \in Instances, v \in BOOLEAN, st \in BOOLEAN :
         job' = [instance |-> i, validate_filing_indicators |-> v, strict_validation |-> st]
    /\ prev' = NoObject
    /\ pc' = "converting"
    /\ UNCHANGED <<registry, taxonomy_env, process_vars, file, idx, all_findings,
                   temp_dir, error, run_no, rule_set, eba, post_conversion, selected,
                   direct_vars, cache_vars>>

\* The conversion ends.
Convert ==
    /\ pc = "converting"
    /\ prev' = convert_instance(job.instance, job.validate_filing_indicators,
                                job.strict_validation)
    /\ pc' = "converted"
    /\ UNCHANGED <<registry, taxonomy_env, process_vars, file, idx, all_findings, job,
                   temp_dir, error, run_no, rule_set, eba, post_conversion, selected,
                   direct_vars, cache_vars>>

\* The caller is done with the result.
EndConversion ==
    /\ pc = "converted"
    /\ job' = NoObject
    /\ prev' = NoObject
    /\ pc' = "idle"
    /\ UNCHANGED <<registry, taxonomy_env, process_vars, file, idx, all_findings,
                   temp_dir, error, run_no, rule_set, eba, post_conversion, selected,
                   direct_vars, cache_vars>>

NextConvert == StartConversion \/ Convert \/ EndConversion

SpecConvert == InitCache /\ [][NextConvert]_vars


\* ================================================= decimals parameters
\* The converter's _decimals_parameters entry of one data type while the
\* @decimals of its facts are met in document order. The converter is not
\* among the files of the repository; the update is the one
\* tests/test_decimal_precision.py spells out, which is section 4.E of the
\* specification.
MaxDecimals == 3

\* An integer @decimals, and the two special markers.
IntDecimals(n) == [int |-> n]
INF == [special |-> "INF"]
NoneDecimals == [special |-> "#none"]

DecimalsValues == {INF, NoneDecimals, IntDecimals(0), IntDecimals(2), IntDecimals(4)}

IsSpecial(decimals) == decimals \in {INF, NoneDecimals}

\* An update in which INF, once stored, stays.
update_decimals_sticky_inf(existing, decimals) ==
    IF existing = NoObject THEN decimals
    ELSE IF existing = INF THEN existing
    ELSE IF IsSpecial(decimals) THEN existing
    ELSE IF IsSpecial(existing) THEN decimals
    ELSE IF decimals.int < existing.int THEN decimals
    ELSE existing

\* One encounter: the first value is stored as it is; a special marker is
\* skipped afterwards; an integer replaces a stored marker, and a stored
\* integer when it is smaller.
update_decimals(existing, decimals) ==
    IF existing = NoObject THEN decimals
    ELSE IF IsSpecial(decimals) THEN existing
    ELSE IF IsSpecial(existing) THEN decimals
    ELSE IF decimals.int < existing.int THEN decimals
    ELSE existing

\* The facts of one data type are about to be gone through.
StartDecimals ==
    /\ pc = "idle"
    /\ \E n \in 1..MaxDecimals, values \in [1..MaxDecimals -> DecimalsValues] :
         job' = [values |-> SubSeq(values, 1, n), seen |-> 0]
    /\ prev' = NoObject
    /\ pc' = "decimals"
    /\ UNCHANGED <<registry, taxonomy_env, process_vars, file, idx, all_findings,
                   temp_dir, error, run_no, rule_set, eba, post_conversion, selected,
                   direct_vars, cache_vars>>

\* The @decimals of the next fact is met.
NextDecimals ==
    /\ pc = "decimals"
    /\ job.seen < Len(job.values)
    /\ prev' = update_decimals(prev, job.values[job.seen + 1])
    /\ job' = [job EXCEPT !.seen = @ + 1]
    /\ UNCHANGED <<registry, taxonomy_env, process_vars, file, idx, all_findings,
                   temp_dir, error, run_no, rule_set, eba, post_conversion, selected,
                   direct_vars, cache_vars, pc>>

\* The mapping is written to parameters.csv.
EndDecimals ==
    /\ pc = "decimals"
    /\ job.seen = Len(job.values)
    /\ job' = NoObject
    /\ prev' = NoObject
    /\ pc' = "idle"
    /\ UNCHANGED <<registry, taxonomy_env, process_vars, file, idx, all_findings,
                   temp_dir, error, run_no, rule_set, eba, post_conversion, selected,
                   direct_vars, cache_vars>>

NextAggregation == StartDecimals \/ NextDecimals \/ EndDecimals

SpecDecimals == InitCache /\ [][NextAggregation]_vars


\* ============================================ allowed-value normalisation
\* Converter._normalize_allowed_values on the cells one datapoint emits into
\* one enumerated column. The converter is not among the files of the
\* repository; the operator follows section 4.C of the specification and the
\* calls of tests/test_allowed_values_validation.py.
MaxRows == 2

\* A prefixed code.
Code(prefix, local) == [prefix |-> prefix, local |-> local]

CellValues == { Code(p, l) : p \in {"eba_BT", "wrong_ns"}, l \in {"x22", "x23", "x99"} } \cup {NoObject}

\* The allowed_values of the datapoint: none, or the two codes of the tests.
AllowedValues == { {}, {Code("eba_BT", "x22"), Code("eba_BT", "x23")} }

LocalNames(allowed_values) == { a.local : a \in allowed_values }

\* What the normalisation gives: the table, or the error it raises.
Normalised(raised, table, message) == [raised |-> raised, table |-> table, message |-> message]

\* The cells the normalisation cannot rewrite.
invalid_cells(table_df, allowed_values) ==
    { k \in 1..Len(table_df) :
        /\ allowed_values # {}
        /\ table_df[k] # NoObject
        /\ table_df[k] \notin allowed_values
        /\ table_df[k].local \notin LocalNames(allowed_values) }

normalize_cell(value, allowed_values) ==
    IF allowed_values = {} \/ value = NoObject \/ value \in allowed_values
    THEN value
    ELSE IF value.local \in LocalNames(allowed_values)
    THEN CHOOSE a \in allowed_values : a.local = value.local
    ELSE value

\* A normalisation that lets a code nothing matches through.
_normalize_allowed_values_lenient(table_df, datapoint, allowed_values) ==
    Normalised(FALSE, [k \in 1..Len(table_df) |-> normalize_cell(table_df[k], allowed_values)], NoObject)

_normalize_allowed_values(table_df, datapoint, allowed_values) ==
    IF invalid_cells(table_df, allowed_values) # {}
    THEN Normalised(TRUE, <<>>,
                    [type |-> "ValueError", datapoint |-> datapoint,
                     values |-> { table_df[k].local : k \in invalid_cells(table_df, allowed_values) },
                     accepted |-> LocalNames(allowed_values)])
    ELSE Normalised(FALSE, [k \in 1..Len(table_df) |-> normalize_cell(table_df[k], allowed_values)], NoObject)

\* A table of cells of one datapoint is about to be normalised.
StartNormalize ==
    /\ pc = "idle"
    /\ \E n \in 0..MaxRows, cells \in [1..MaxRows -> CellValues], allowed_values \in AllowedValues :
         job' = [datapoint |-> "dp123", allowed_values |-> allowed_values,
                 table_df |-> SubSeq(cells, 1, n)]
    /\ prev' = NoObject
    /\ pc' = "normalizing"
    /\ UNCHANGED <<registry, taxonomy_env, process_vars, file, idx, all_findings,
                   temp_dir, error, run_no, rule_set, eba, post_conversion, selected,
                   direct_vars, cache_vars>>

Normalize ==
    /\ pc = "normalizing"
    /\ prev' = _normalize_allowed_values(job.table_df, job.datapoint, job.allowed_values)
    /\ pc' = "normalized"
    /\ UNCHANGED <<registry, taxonomy_env, process_vars, file, idx, all_findings,
                   temp_dir, error, run_no, rule_set, eba, post_conversion, selected,
                   direct_vars, cache_vars, job>>

\* The table that came out is normalised once more.
NormalizeAgain ==
    /\ pc = "normalized"
    /\ ~prev.raised
    /\ job' = [job EXCEPT !.table_df = prev.table]
    /\ prev' = _normalize_allowed_values(prev.table, job.datapoint, job.allowed_values)
    /\ pc' = "renormalized"
    /\ UNCHANGED <<registry, taxonomy_env, process_vars, file, idx, all_findings,
                   temp_dir, error, run_no, rule_set, eba, post_conversion, selected,
                   direct_vars, cache_vars>>

EndNormalize ==
    /\ pc \in {"normalized", "renormalized"}
    /\ job' = NoObject
    /\ prev' = NoObject
    /\ pc' = "idle"
    /\ UNCHANGED <<registry, taxonomy_env, process_vars, file, idx, all_findings,
                   temp_dir, error, run_no, rule_set, eba, post_conversion, selected,
                   direct_vars, cache_vars>>

NextNormalize == StartNormalize \/ Normalize \/ NormalizeAgain \/ EndNormalize

SpecNormalize == InitCache /\ [][NextNormalize]_vars


\* ================================================= filing indicator values
\* The filed attribute of the filing indicators as the instance parser reads
\* it, before the conversion goes on. The parser is not among the files of
\* the repository; the decoding follows section 4.A of the specification and
\* tests/test_filing_indicator_validation.py.
FiledTexts == {"true", "1", "false", "0", "TRUE", "FALSE", "yes"}

\* The filing indicators in document order.
IndicatorOrder == <<"R_01.00", "R_09.00">>

\* A decoding that takes the upper-case spellings too.
decode_filed_any_case(text) ==
    IF text \in {"true", "1", "TRUE"} THEN "true"
    ELSE IF text \in {"false", "0", "FALSE"} THEN "false"
    ELSE IF text = "absent" THEN "absent"
    ELSE "invalid"

\* The decoded filed value of one indicator; "absent" stands for a table
\* without an indicator.
decode_filed(text) ==
    IF text \in {"true", "1"} THEN "true"
    ELSE IF text \in {"false", "0"} THEN "false"
    ELSE IF text = "absent" THEN "absent"
    ELSE "invalid"

\* convert_instance on the file as written: the first indicator whose filed
\* text decodes to nothing raises FilingIndicatorValueError, before anything
\* else of the conversion.
convert_file(raw, facts, validate_filing_indicators, strict_validation) ==
    LET invalid == { k \in 1..Len(IndicatorOrder) : decode_filed(raw[IndicatorOrder[k]]) = "invalid" }
        first == CHOOSE k \in invalid : \A j \in invalid : k <= j
        decoded == [t \in Tables |-> decode_filed(raw[t])]
    IN IF invalid # {}
       THEN [raised |-> TRUE, type |-> "FilingIndicatorValueError",
             offending_value |-> raw[IndicatorOrder[first]], output |-> FALSE]
       ELSE [raised |-> FALSE, filing_indicators |-> decoded,
             converted |-> convert_instance(Instance(decoded, facts), validate_filing_indicators, strict_validation)]

\* An instance file is handed to convert_instance.
StartFile ==
    /\ pc = "idle"
    /\ \E raw \in [Tables -> FiledTexts \cup {"absent"}], n \in 0..MaxFacts, facts \in [1..MaxFacts -> Metrics], v \in BOOLEAN, s \in BOOLEAN :
         job' = [raw |-> raw, facts |-> SubSeq(facts, 1, n),
                 validate_filing_indicators |-> v, strict_validation |-> s]
    /\ prev' = NoObject
    /\ pc' = "parsing"
    /\ UNCHANGED <<registry, taxonomy_env, process_vars, file, idx, all_findings,
                   temp_dir, error, run_no, rule_set, eba, post_conversion, selected,
                   direct_vars, cache_vars>>

ConvertFile ==
    /\ pc = "parsing"
    /\ prev' = convert_file(job.raw, job.facts, job.validate_filing_indicators, job.strict_validation)
    /\ pc' = "parsed"
    /\ UNCHANGED <<registry, taxonomy_env, process_vars, file, idx, all_findings,
                   temp_dir, error, run_no, rule_set, eba, post_conversion, selected,
                   direct_vars, cache_vars, job>>

EndFile ==
    /\ pc = "parsed"
    /\ job' = NoObject
    /\ prev' = NoObject
    /\ pc' = "idle"
    /\ UNCHANGED <<registry, taxonomy_env, process_vars, file, idx, all_findings,
                   temp_dir, error, run_no, rule_set, eba, post_conversion, selected,
                   direct_vars, cache_vars>>

NextFile == StartFile \/ ConvertFile \/ EndFile

SpecFiled == InitCache /\ [][NextFile]_vars


\* ======================================================== output writing
\* The convert command: _convert_main hands the instance to convert_instance
\* and exits with 1 when it raises, touching nothing of the output itself.
\* The writer behind convert_instance is not among the files of the
\* repository; it is modelled as section 5 of the specification requires it:
\* the package is written to a temporary path of the output directory and
\* renamed when the write succeeded.
MaxConversions == 3
MaxFiles == 2

\* A package on disk: the conversion that wrote it, how many of its files
\* are written, and how many it has.
Package(n, written, files) == [job |-> n, written |-> written, files |-> files]

\* The output directory: what is at the final path, what is at the temporary
\* path, the conversions that failed, and how many conversions were run.
OutputDir(final, temp, failed, count) == [final |-> final, temp |-> temp, failed |-> failed, count |-> count]

output_dir == IF prev = NoObject THEN OutputDir(NoObject, NoObject, {}, 0) ELSE prev

begin_write(dir, n, files) == [dir EXCEPT !.temp = Package(n, 0, files)]

\* A writer that writes each file at the final path.
write_file_in_place(dir) ==
    [dir EXCEPT !.temp = [@ EXCEPT !.written = @ + 1],
                !.final = [dir.temp EXCEPT !.written = @ + 1]]

write_file(dir) == [dir EXCEPT !.temp = [@ EXCEPT !.written = @ + 1]]

rename(dir) == [dir EXCEPT !.final = dir.temp, !.temp = NoObject]

\* _convert_main: the arguments are parsed, the paths exist, and
\* convert_instance is called.
ConvertMain ==
    /\ pc = "idle"
    /\ output_dir.count < MaxConversions
    /\ \E files \in 1..MaxFiles :
         job' = [n |-> output_dir.count + 1, files |-> files, stage |-> "resolving"]
    /\ prev' = [output_dir EXCEPT !.count = @ + 1]
    /\ pc' = "convert_main"
    /\ UNCHANGED <<registry, taxonomy_env, process_vars, file, idx, all_findings,
                   temp_dir, error, run_no, rule_set, eba, post_conversion, selected,
                   direct_vars, cache_vars>>

\* A fatal error before the writer starts (a bad filing indicator value, an
\* impossible normalisation, a strict filing-indicator failure).
FatalConversion ==
    /\ pc = "convert_main"
    /\ job.stage = "resolving"
    /\ prev' = [prev EXCEPT !.failed = @ \cup {job.n}]
    /\ job' = [job EXCEPT !.stage = "raised"]
    /\ UNCHANGED <<registry, taxonomy_env, process_vars, file, idx, all_findings,
                   temp_dir, error, run_no, rule_set, eba, post_conversion, selected,
                   direct_vars, cache_vars, pc>>

BeginWrite ==
    /\ pc = "convert_main"
    /\ job.stage = "resolving"
    /\ prev' = begin_write(prev, job.n, job.files)
    /\ job' = [job EXCEPT !.stage = "writing"]
    /\ UNCHANGED <<registry, taxonomy_env, process_vars, file, idx, all_findings,
                   temp_dir, error, run_no, rule_set, eba, post_conversion, selected,
                   direct_vars, cache_vars, pc>>

WriteFile ==
    /\ pc = "convert_main"
    /\ job.stage = "writing"
    /\ prev.temp.written < prev.temp.files
    /\ prev' = write_file(prev)
    /\ UNCHANGED <<registry, taxonomy_env, process_vars, file, idx, all_findings,
                   temp_dir, error, run_no, rule_set, eba, post_conversion, selected,
                   direct_vars, cache_vars, pc, job>>

\* The write fails part-way; what was written stays at the temporary path
\* or is removed.
WriteFails ==
    /\ pc = "convert_main"
    /\ job.stage = "writing"
    /\ prev.temp.written < prev.temp.files
    /\ \E left \in {prev.temp, NoObject} :
         prev' = [prev EXCEPT !.failed = @ \cup {job.n}, !.temp = left]
    /\ job' = [job EXCEPT !.stage = "raised"]
    /\ UNCHANGED <<registry, taxonomy_env, process_vars, file, idx, all_findings,
                   temp_dir, error, run_no, rule_set, eba, post_conversion, selected,
                   direct_vars, cache_vars, pc>>

Rename ==
    /\ pc = "convert_main"
    /\ job.stage = "writing"
    /\ prev.temp.written = prev.temp.files
    /\ prev' = rename(prev)
    /\ job' = [job EXCEPT !.stage = "returned"]
    /\ UNCHANGED <<registry, taxonomy_env, process_vars, file, idx, all_findings,
                   temp_dir, error, run_no, rule_set, eba, post_conversion, selected,
                   direct_vars, cache_vars, pc>>

\* _convert_main prints the outcome; an exception makes it exit with 1.
ExitConvertMain ==
    /\ pc = "convert_main"
    /\ job.stage \in {"raised", "returned"}
    /\ job' = NoObject
    /\ pc' = "idle"
    /\ UNCHANGED <<registry, taxonomy_env, process_vars, file, idx, all_findings,
                   temp_dir, error, run_no, rule_set, eba, post_conversion, selected,
                   direct_vars, cache_vars, prev>>

NextWrite == ConvertMain \/ FatalConversion \/ BeginWrite \/ WriteFile \/ WriteFails \/ Rename \/ ExitConvertMain

SpecWrite == InitCache /\ [][NextWrite]_vars


\* ==================================================== duplicate contexts
\* check_duplicate_contexts (XML-067) on the contexts of one document, with
\* the keys the document scan builds from the context elements.
MaxContexts == 3

\* <xbrli:entity> with its <xbrli:identifier scheme=...>text</...>.
Entity(scheme, text) == [scheme |-> scheme, text |-> text]

\* <xbrli:period> with an <xbrli:instant>.
Instant(text) == [instant |-> text]

\* A context element without its @id: the entity (or none), the period and
\* the children of the scenario (or none), in document order.
ContextContent(entity, period, scenario) == [entity |-> entity, period |-> period, scenario |-> scenario]

ContextContents ==
    { ContextContent(en, p, sc) :
        en \in {NoObject, Entity("s", "LEI1"), Entity("s", " LEI1"), Entity("s", "LEI2")},
        p \in {Instant("2024-12-31"), Instant("2023-12-31")},
        sc \in {NoObject, [children |-> <<"eg:a", "eg:b">>], [children |-> <<"eg:b", "eg:a">>]} }

ContextIds == <<"c1", "c2", "c3", "c4">>

\* str.strip() on the identifier texts of the model.
Strip(text) == IF text = " LEI1" THEN "LEI1" ELSE text

\* sorted(etree.tostring(ch) for ch in scenario) for children that are all
\* different.
SortedChildren(children) ==
    SelectSeq(<<"eg:a", "eg:b">>, LAMBDA ch : \E k \in 1..Len(children) : children[k] = ch)

\* _context_key(elem), for contexts whose period is an instant: ("?",) without
\* an entity, otherwise scheme, stripped identifier, period part and the
\* sorted scenario children.
_context_key(elem) ==
    IF elem.entity = NoObject THEN <<"?">>
    ELSE <<elem.entity.scheme,
           Strip(elem.entity.text),
           <<"instant", Strip(elem.period.instant)>>,
           IF elem.scenario = NoObject THEN <<>> ELSE SortedChildren(elem.scenario.children)>>

\* The part of xml_document._scan that check_duplicate_contexts reads: the
\* ids in document order and the key of each id.
context_inventory(contexts) ==
    [ctx_ids |-> [k \in 1..Len(contexts) |-> ContextIds[k]],
     ctx_keys |-> [cid \in { ContextIds[k] : k \in 1..Len(contexts) } |->
                     _context_key(contexts[CHOOSE k \in 1..Len(contexts) : ContextIds[k] = cid])]]

\* A document with some contexts is given to the rule.
StartContexts ==
    /\ pc = "idle"
    /\ \E n \in 1..MaxContexts, contexts \in [1..MaxContexts -> ContextContents] :
         job' = [contexts |-> SubSeq(contexts, 1, n)]
    /\ prev' = NoObject
    /\ pc' = "contexts"
    /\ UNCHANGED <<registry, taxonomy_env, process_vars, file, idx, all_findings,
                   temp_dir, error, run_no, rule_set, eba, post_conversion, selected,
                   direct_vars, cache_vars>>

CheckDuplicateContexts ==
    /\ pc = "contexts"
    /\ prev' = check_duplicate_contexts(context_inventory(job.contexts))
    /\ pc' = "checked"
    /\ UNCHANGED <<registry, taxonomy_env, process_vars, file, idx, all_findings,
                   temp_dir, error, run_no, rule_set, eba, post_conversion, selected,
                   direct_vars, cache_vars, job>>

EndContexts ==
    /\ pc = "checked"
    /\ job' = NoObject
    /\ prev' = NoObject
    /\ pc' = "idle"
    /\ UNCHANGED <<registry, taxonomy_env, process_vars, file, idx, all_findings,
                   temp_dir, error, run_no, rule_set, eba, post_conversion, selected,
                   direct_vars, cache_vars>>

NextContexts == StartContexts \/ CheckDuplicateContexts \/ EndContexts

SpecDuplicates == InitCache /\ [][NextContexts]_vars


\* ========================================================== EBA decimals
\* The four rule functions of eba_decimals on the facts of an instance, its
\* units and the taxonomy module (or none).
MaxDecFacts == 1

_DEFAULT_MONETARY_THRESHOLD == -4
_RELAXED_MONETARY_THRESHOLD == -6
_MAX_REALISTIC_DECIMALS == 20

DecimalsCodes == {"EBA-DEC-001", "EBA-DEC-002", "EBA-DEC-003", "EBA-DEC-004"}

MetricTypes == {"$decimalsMonetary", "$decimalsPercentage", "$decimalsInteger", "$decimalsDecimal"}

ModuleUrls ==
    {"http://www.eba.europa.eu/eu/fr/xbrl/crr/fws/corep/4.0/mod/corep_of.json",
     "http://www.eba.europa.eu/eu/fr/xbrl/crr/fws/fp/4.0/mod/fp.json",
     "http://www.eba.europa.eu/eu/fr/xbrl/crr/fws/esg/4.0/mod/esg.json",
     "http://www.eba.europa.eu/eu/fr/xbrl/crr/fws/pillar3/4.0/mod/p3.json",
     "http://www.eba.europa.eu/eu/fr/xbrl/crr/fws/rem/4.0/mod/rem_bm.json"}

\* `seg in url` for a seg of _RELAXED_FW_SEGMENTS, on the URLs of the model.
HasRelaxedSegment(url) ==
    url \in ModuleUrls \ {"http://www.eba.europa.eu/eu/fr/xbrl/crr/fws/corep/4.0/mod/corep_of.json"}

\* A module whose variables of the concept eba_met:mi1 have one type.
EbaModule(attributes, url) == [concepts |-> {"eba_met:mi1"}, attributes |-> attributes, url |-> url]

EbaModules ==
    { EbaModule(t, "http://www.eba.europa.eu/eu/fr/xbrl/crr/fws/corep/4.0/mod/corep_of.json") : t \in MetricTypes }
    \cup { EbaModule("$decimalsMonetary", url) : url \in ModuleUrls }

\* The @decimals texts of the facts: integers about the thresholds, INF, a
\* text that is no number, and no attribute at all.
FactDecimals ==
    { IntDecimals(d) : d \in {-7, -6, -5, -4, 0, 3, 4, 20, 21} } \cup {INF, NoneDecimals, NoObject}

\* A fact of the parsed instance.
EbaFact(metric, unit, decimals) == [metric |-> metric, unit |-> unit, decimals |-> decimals]

EbaFacts ==
    { EbaFact(m, u, d) : m \in {"eba_met:mi1", "eba_met:xx9"}, u \in {None, "u1"}, d \in FactDecimals }

UnitMeasures == {"iso4217:EUR", "xbrli:pure", "other:x"}

\* A threshold that is the default for every module.
_monetary_threshold_default(module) == _DEFAULT_MONETARY_THRESHOLD

\* _monetary_threshold(ctx).
_monetary_threshold(module) ==
    IF module # NoObject /\ HasRelaxedSegment(module.value.url)
    THEN _RELAXED_MONETARY_THRESHOLD
    ELSE _DEFAULT_MONETARY_THRESHOLD

\* _parse_decimals(raw): the integer, or nothing for INF and for a text
\* that is no number.
_parse_decimals(raw) == IF raw = NoObject \/ IsSpecial(raw) THEN NoObject ELSE raw

_is_inf(raw) == raw = INF

_infer_type_from_unit(unit_measure) ==
    IF unit_measure = "iso4217:EUR" THEN "$decimalsMonetary"
    ELSE IF unit_measure \in {"xbrli:pure", "pure"} THEN "$decimalsPercentage"
    ELSE None

\* type_map.get(metric), with the fallback on the unit measure when
\* fallback holds.
metric_type(type_map, fact, units, fallback) ==
    IF fact.metric \in DOMAIN type_map THEN type_map[fact.metric]
    ELSE IF fallback /\ fact.unit \in DOMAIN units THEN _infer_type_from_unit(units[fact.unit])
    ELSE None

\* The facts each rule function reports, as their positions in inst.facts.
check_decimals(code, facts, units, module) ==
    LET type_map == _build_metric_type_map(module, NoObject).result
        threshold == _monetary_threshold(module)
        dec(k) == _parse_decimals(facts[k].decimals)
        reported(k) ==
            IF code = "EBA-DEC-004"
            THEN /\ facts[k].decimals # NoObject
                 /\ \/ _is_inf(facts[k].decimals)
                    \/ (dec(k) # NoObject /\ dec(k).int > _MAX_REALISTIC_DECIMALS)
            ELSE /\ facts[k].unit # None
                 /\ facts[k].decimals # NoObject
                 /\ IF code = "EBA-DEC-001"
                    THEN /\ metric_type(type_map, facts[k], units, TRUE) = "$decimalsMonetary"
                         /\ dec(k) # NoObject /\ dec(k).int < threshold
                    ELSE IF code = "EBA-DEC-002"
                    THEN /\ metric_type(type_map, facts[k], units, TRUE) = "$decimalsPercentage"
                         /\ dec(k) # NoObject /\ dec(k).int < 4
                    ELSE /\ metric_type(type_map, facts[k], units, FALSE) = "$decimalsInteger"
                         /\ \/ _is_inf(facts[k].decimals)
                            \/ (dec(k) # NoObject /\ dec(k).int # 0)
    IN SelectSeq([k \in 1..Len(facts) |-> k], reported)

\* An instance with its facts and its unit u1, and the module of its
\* schemaRef (or none), are there.
StartDecimalsRules ==
    /\ pc = "idle"
    /\ \E n \in 1..MaxDecFacts, facts \in [1..MaxDecFacts -> EbaFacts], measure \in UnitMeasures, m \in EbaModules \cup {NoObject} :
         job' = [facts |-> SubSeq(facts, 1, n), units |-> [u \in {"u1"} |-> measure],
                 module |-> IF m = NoObject THEN NoObject ELSE Object(1, 1, m)]
    /\ prev' = NoObject
    /\ pc' = "decimals_rules"
    /\ UNCHANGED <<registry, taxonomy_env, process_vars, file, idx, all_findings,
                   temp_dir, error, run_no, rule_set, eba, post_conversion, selected,
                   direct_vars, cache_vars>>

\* One of the four rule functions is called.
CallDecimalsRule ==
    /\ pc = "decimals_rules"
    /\ \E code \in DecimalsCodes :
         prev' = [code |-> code, findings |-> check_decimals(code, job.facts, job.units, job.module)]
    /\ UNCHANGED <<registry, taxonomy_env, process_vars, file, idx, all_findings,
                   temp_dir, error, run_no, rule_set, eba, post_conversion, selected,
                   direct_vars, cache_vars, job, pc>>

EndDecimalsRules ==
    /\ pc = "decimals_rules"
    /\ job' = NoObject
    /\ prev' = NoObject
    /\ pc' = "idle"
    /\ UNCHANGED <<registry, taxonomy_env, process_vars, file, idx, all_findings,
                   temp_dir, error, run_no, rule_set, eba, post_conversion, selected,
                   direct_vars, cache_vars>>

NextDecimalsRules == StartDecimalsRules \/ CallDecimalsRule \/ EndDecimalsRules

SpecEbaDecimals == InitCache /\ [][NextDecimalsRules]_vars


\* ------------------------------------------------------------------ claims
\* The context the specification describes for a rule: every keyword the
\* engine passes is an attribute.
ClaimedContext(rule) ==
    [a \in EngineKwargs \cup {"_findings"} |->
        IF a = "_findings" THEN <<>>
        ELSE IF a = "rule_set" THEN rule_set
        ELSE IF a = "rule_definition" THEN rule
        ELSE job[a]]

\* The findings a rule's implementation reports on that context.
ClaimedFindings(rule) ==
    LET func == get_rule_impl(impl_registry, rule.code, rule_set)
        c == ClaimedContext(rule)
    IN IF func = None THEN <<>>
       ELSE add_findings(c, impl(func, c).calls)["_findings"]

RECURSIVE ExpectedFindings(_)
ExpectedFindings(k) ==
    IF k > Len(selected) THEN <<>>
    ELSE ClaimedFindings(selected[k]) \o ExpectedFindings(k + 1)

\* The call is over and had reached the rule loop.
LoopOver == pc \in {"returned", "raised"} /\ job # NoObject

Implemented(code) == get_rule_impl(impl_registry, code, rule_set) # None

Codes(findings) == { findings[k].rule_id : k \in 1..Len(findings) }

SelectedCodes == { selected[k].code : k \in 1..Len(selected) }

\* C2: run_validation executes the selected rules one after another in
\* catalog order and returns their findings in that order: the returned list
\* is the concatenation, over the selected rules in catalog order, of each
\* rule's findings in the order of its add_finding calls.
C2_ExecutionOrder ==
    LoopOver => pc = "returned" /\ all_findings = ExpectedFindings(1)

\* C3: an exception raised while a selected rule is executed does not leave
\* run_validation: the findings of earlier rules are kept and the loop goes
\* on, so a call that reached the rule loop never ends with an exception and
\* never stops before the last selected rule.
C3_NoPropagation ==
    [][pc = "loop" => pc' \in {"loop", "returned"} /\ idx' >= idx
                      /\ Len(all_findings') >= Len(all_findings)]_vars

\* C5: for each selected rule that has an implementation, constructing the
\* ValidationContext with the keywords run_validation passes succeeds, and
\* the context has the attributes file_path, raw_bytes, xml_instance,
\* csv_instance, module, xml_root and zip_path.
C5_ContextConstructed ==
    (pc = "loop" /\ idx <= Len(selected) /\ Implemented(selected[idx].code)) =>
        LET made == ValidationContext(context_kwargs(selected[idx]))
        IN /\ made.ok
           /\ EngineKwargs \subseteq DOMAIN made.value

\* C6: when parsing fails the call does not abort: the selected rules are
\* executed with the raw bytes, and XML-001 and XML-002 report their findings
\* (bytes that are not well-formed, a declared encoding that is not UTF-8).
C6_ParseFailureGoesOn ==
    (LoopOver /\ rule_set = "xml" /\ job.xml_instance = NoObject) =>
        /\ pc = "returned"
        /\ ("XML-001" \in SelectedCodes /\ ~job.raw_bytes.wellformed)
              => "XML-001" \in Codes(all_findings)
        /\ ("XML-002" \in SelectedCodes /\ Lower(job.raw_bytes.encoding) # "utf-8")
              => "XML-002" \in Codes(all_findings)

\* The rules that need the taxonomy module.
ModuleRules == {"XML-024", "XML-070", "XML-071", "XML-072"}

\* C7: without a taxonomy module validation still completes, and no rule
\* that needs the module (XML-024, XML-070, XML-071, XML-072) reports a
\* finding or raises.
C7_NoModuleCompletes ==
    (LoopOver /\ rule_set = "xml" /\ job.module = NoObject) =>
        /\ pc = "returned"
        /\ Codes(all_findings) \cap ModuleRules = {}

\* How often x occurs in the sequence s.
RECURSIVE Count(_, _)
Count(s, x) ==
    IF s = <<>> THEN 0
    ELSE (IF Head(s) = x THEN 1 ELSE 0) + Count(Tail(s), x)

Elements(s) == { s[k] : k \in 1..Len(s) }

SameMultiset(s, t) ==
    \A x \in Elements(s) \cup Elements(t) : Count(s, x) = Count(t, x)

\* The findings of the job's rules when every scan is computed from the
\* job's own root and module.
RecomputedDocument == unused_contexts(document_pass(cjob.root.value))

RecomputedTaxonomy ==
    IF cjob.module = NoObject THEN <<>>
    ELSE taxonomy_pass(cjob.root.value,
                       _extract_taxonomy(cjob.module.value, cjob.root.value.met)
                      ).unknown_concepts

\* C8: a job that validates the same input with the same flags as the job
\* before it, in whatever state that job left the caches, ends with the same
\* findings for every rule, as multisets.
C8_SameFindingsTwice ==
    (pc = "job" /\ cjob.step = 4 /\ pjob # NoObject
     /\ pjob.doc = cjob.root.value /\ pjob.module = ValueOf(cjob.module)
     /\ pjob.eba = cjob.eba) =>
        /\ SameMultiset(cjob.document, pjob.document)
        /\ SameMultiset(cjob.taxonomy, pjob.taxonomy)

\* C9: after any sequence of earlier jobs, the set of findings a job gets
\* with the scan caches in use equals the set it gets when every scan is
\* recomputed.
C9_CacheInvariance ==
    (pc = "job" /\ cjob.step = 4) =>
        /\ Elements(cjob.document) = Elements(RecomputedDocument)
        /\ Elements(cjob.taxonomy) = Elements(RecomputedTaxonomy)

\* C10: a lookup in a single-slot cache returns a result only if it was
\* computed from the very root and module of the current job: the slot of
\* xml_document holds the job's root, that of eba_decimals the job's module,
\* and the scan the taxonomy rules used was computed from both.
C10_KeyedByIdentity ==
    pc = "job" =>
        /\ cjob.step > 1 => xml_document_last_scan.root.oid = cjob.root.oid
        /\ cjob.used # NoObject =>
              cjob.used = [module |-> cjob.module.oid, root |-> cjob.root.oid]
        /\ (cjob.step > 3 /\ cjob.eba /\ cjob.module # NoObject) =>
              eba_decimals_last_type_map.module.oid = cjob.module.oid

\* C11: every scan cache is one slot, and when a job is over no slot still
\* holds, or is keyed by, the root element or the module of that job.
C11_SlotsReleased ==
    (pc = "idle" /\ njobs > 0) =>
        /\ xml_document_last_scan # NoObject =>
              xml_document_last_scan.root.oid # njobs
        /\ eba_decimals_last_type_map # NoObject =>
              eba_decimals_last_type_map.module.oid # njobs
        /\ xml_taxonomy_last_taxonomy # NoObject =>
              computed_from.taxonomy.module # njobs
        /\ xml_taxonomy_last_scan # NoObject =>
              computed_from.scan.root # njobs

\* C12: no rule body changes a field of a cached scan result: a slot that
\* still holds the scan of the same root holds the same result after any rule
\* call, and every rule called in a job found what it finds when it is the
\* first rule called on that root, whichever rules were called before it.
C12_ScanResultImmutable ==
    /\ [](pc = "rules" =>
            \A code \in cjob.ran :
                cjob.findings[code] =
                    call_rule(code, cjob.root, cjob.module, cjob.start).findings)
    /\ [][/\ ((/\ xml_document_last_scan # NoObject
              /\ xml_document_last_scan' # NoObject
              /\ xml_document_last_scan'.root.oid = xml_document_last_scan.root.oid)
             => xml_document_last_scan'.result = xml_document_last_scan.result)
          /\ ((/\ xml_taxonomy_last_scan # NoObject
              /\ xml_taxonomy_last_scan' # NoObject
              /\ xml_taxonomy_last_scan'.rid = xml_taxonomy_last_scan.rid)
             => xml_taxonomy_last_scan'.result = xml_taxonomy_last_scan.result)]_vars

\* Every rule was called on a root with a duplicate, unused context and an
\* unknown concept, and each reported it.
C12_Witness ==
    /\ pc = "rules"
    /\ cjob.ran = RuleCodes
    /\ cjob.findings["XML-066"] = <<"c2">>
    /\ cjob.findings["XML-067"] = <<DuplicateFinding("c2", "c1")>>
    /\ cjob.findings["XML-070"] # <<>>
    /\ xml_document_last_scan.result = document_pass(cjob.root.value)

\* C13: a decorator whose (code, format) key was bound raised ValueError and
\* left the registry as it was; one whose key was free bound it to its
\* function and left every other key alone, whatever other formats of the
\* same code were bound.
C13_DuplicateRaises ==
    prev # NoObject =>
        LET d == prev.decorator
            key == <<d.code, d.format>>
        IN IF key \in DOMAIN prev.before
           THEN error = "ValueError" /\ impl_registry = prev.before
           ELSE /\ error = None
                /\ DOMAIN impl_registry = DOMAIN prev.before \cup {key}
                /\ impl_registry[key] = d.func
                /\ \A k \in DOMAIN prev.before : impl_registry[k] = prev.before[k]

\* A second function was refused for a key, after the key of each format
\* and the key without a format had been bound for the same code.
C13_Witness ==
    /\ prev # NoObject
    /\ error = "ValueError"
    /\ prev.decorator.func # impl_registry[<<prev.decorator.code, prev.decorator.format>>]
    /\ \A f \in Formats \cup {None} : <<prev.decorator.code, f>> \in DOMAIN impl_registry

\* C14: get_rule_impl returned the function bound to (code, format) when
\* there is one, otherwise the one bound to (code, None), otherwise None; it
\* never returned a function bound only to the other format.
C14_TwoLevelLookup ==
    job # NoObject =>
        LET specific == <<job.code, job.format>>
            generic == <<job.code, None>>
        IN /\ specific \in DOMAIN impl_registry => job.result = impl_registry[specific]
           /\ (specific \notin DOMAIN impl_registry /\ generic \in DOMAIN impl_registry)
                => job.result = impl_registry[generic]
           /\ (specific \notin DOMAIN impl_registry /\ generic \notin DOMAIN impl_registry)
                => job.result = None

\* A lookup fell back to the function without a format while the code has
\* another function for the other format only.
C14_Witness ==
    /\ job # NoObject
    /\ <<job.code, job.format>> \notin DOMAIN impl_registry
    /\ <<job.code, None>> \in DOMAIN impl_registry
    /\ job.result = impl_registry[<<job.code, None>>]
    /\ \E f \in Formats :
          /\ f # job.format
          /\ <<job.code, f>> \in DOMAIN impl_registry
          /\ impl_registry[<<job.code, f>>] # job.result

\* The rule set the specification gives an existing input path, or
\* "ValueError".
ClaimedFormat(f) ==
    LET instances == { k \in 1..Len(f.archive.names) :
                         /\ f.archive.names[k].dirs = <<>>
                         /\ Lower(f.archive.names[k].ext) \in {".xbrl", ".xml"} }
        reports == { k \in 1..Len(f.archive.names) :
                       LET n == f.archive.names[k] IN
                       /\ n.base = "report" /\ n.ext = ".json"
                       /\ n.dirs # <<>> /\ n.dirs[Len(n.dirs)] = "reports" }
    IN IF Lower(f.suffix) \in {".xbrl", ".xml"} THEN "xml"
       ELSE IF f.suffix # ".zip" \/ f.archive.bad THEN "ValueError"
       ELSE IF reports # {} THEN "csv"
       ELSE IF Cardinality(instances) = 1 THEN "xml"
       ELSE "ValueError"

\* C15: a run on an existing path has the rule set the mapping gives
\* (.xbrl/.xml: xml; a .zip with reports/report.json at any depth: csv, also
\* next to an instance; otherwise a .zip with one instance at its root: xml),
\* and on anything else it has raised ValueError with no rule selected or
\* executed.
C15_FormatDetection ==
    (pc # "idle" /\ file # NoObject /\ file.exists) =>
        IF ClaimedFormat(file) = "ValueError"
        THEN /\ pc = "raised" /\ error = "ValueError"
             /\ rule_set = None /\ selected = <<>> /\ all_findings = <<>>
        ELSE rule_set = ClaimedFormat(file)

\* A run on a .zip that holds reports/report.json below a directory and an
\* instance at its root took the csv rule set.
C15_Witness ==
    /\ pc # "idle"
    /\ file # NoObject
    /\ file.exists
    /\ file.suffix = ".zip"
    /\ file.archive = Archive(<<NestedReportJson, RootXbrl>>)
    /\ rule_set = "csv"

\* C16: add_finding never ends in an exception, whatever the message
\* template and the context dict, and in the message of every finding each
\* placeholder stands as the value of its name in the dict, or as the text
\* {name} when the dict has no such key.
C16_DefensiveSubstitution ==
    pc = "direct" =>
        /\ error = None
        /\ \A k \in 1..Len(direct_ctx["_findings"]) :
              LET f == direct_ctx["_findings"][k]
                  template == direct_ctx["rule_definition"].message
              IN f.context # NoObject =>
                    \A n \in 1..Len(template.tokens) :
                        "placeholder" \in DOMAIN template.tokens[n] =>
                            f.message.tokens[n] =
                                IF template.tokens[n].placeholder \in DOMAIN f.context
                                THEN Text(f.context[template.tokens[n].placeholder])
                                ELSE Braced(template.tokens[n].placeholder)

\* C17: a finding of a context has the csv_severity of the context's rule
\* exactly when the rule set is csv and the rule has one, and otherwise the
\* rule's severity; its message is rendered from csv_message exactly when the
\* rule set is csv and the rule has one, and otherwise from message.
C17_CsvOverrides ==
    direct_ctx # NoObject =>
        LET rd == direct_ctx["rule_definition"]
            csv_run == direct_ctx["rule_set"] = "csv"
            severity == IF csv_run /\ rd.csv_severity # None THEN rd.csv_severity
                        ELSE rd.severity
            template == IF csv_run /\ rd.csv_message # NoObject THEN rd.csv_message
                        ELSE rd.message
        IN \A k \in 1..Len(direct_ctx["_findings"]) :
              LET f == direct_ctx["_findings"][k] IN
              /\ f.severity = severity
              /\ f.message = IF f.context = NoObject THEN template
                             ELSE format_map(template, f.context)

\* A csv context of a rule with both overrides has a finding with them, and
\* the rule's own severity and message differ from them.
C17_Witness ==
    /\ direct_ctx # NoObject
    /\ direct_ctx["rule_set"] = "csv"
    /\ direct_ctx["rule_definition"].csv_severity = "WARNING"
    /\ direct_ctx["rule_definition"].severity = "ERROR"
    /\ direct_ctx["rule_definition"].csv_message = CsvDetailMessage
    /\ Len(direct_ctx["_findings"]) > 0
    /\ direct_ctx["_findings"][1].severity = "WARNING"
    /\ direct_ctx["_findings"][1].context = Detail("x")
    /\ direct_ctx["_findings"][1].message =
          Template(<<Text("CSV problem: "), Text("x")>>)

\* C18: a call of validate that reached the rule loop returns a dict with
\* exactly the keys errors and warnings; every finding of the run's rules is
\* there exactly once, as its to_dict() form and in the run's order, in the
\* list under its rule_id, under errors exactly when its severity is ERROR;
\* no list is empty.
C18_ValidateGroups ==
    LoopOver =>
        /\ validate.ok
        /\ DOMAIN validate.value = {"errors", "warnings"}
        /\ LET found == ExpectedFindings(1)
               listed(severe, code) ==
                   SelectSeq(found, LAMBDA f : f.rule_id = code
                                               /\ (f.severity = "ERROR") = severe)
               holds(d, severe) ==
                   /\ DOMAIN d = { c \in Codes(found) : listed(severe, c) # <<>> }
                   /\ \A c \in DOMAIN d :
                         /\ Len(d[c]) = Len(listed(severe, c))
                         /\ \A k \in 1..Len(d[c]) : d[c][k] = to_dict(listed(severe, c)[k])
           IN holds(validate.value.errors, TRUE) /\ holds(validate.value.warnings, FALSE)

\* C19: when the validate subcommand is over, its exit status is 1 if the
\* input file is missing, unsupported or unreadable or the run has an ERROR
\* finding, and 0 if the run has none.
C19_ExitStatus ==
    (pc \in {"returned", "raised"} /\ file # NoObject) =>
        \A json_output \in BOOLEAN :
            _validate_main(json_output) =
                IF \/ ~file.exists
                   \/ error \in {"FileNotFoundError", "ValueError"}
                   \/ \E k \in 1..Len(all_findings) : all_findings[k].severity = "ERROR"
                THEN 1 ELSE 0

\* The tables in which the k-th fact has a cell, and its cells.
CellTables(k) == { c[1] : c \in { d \in prev.cells : d[2] = k } }

CellsOf(k) == { d \in prev.cells : d[2] = k }

ClaimedOrphans ==
    { k \in 1..Len(job.instance.facts) :
        /\ \E t \in Tables : /\ job.instance.filing_indicators[t] # "true"
                              /\ job.instance.facts[k] \in ModuleTables[t]
        /\ ~\E t \in Tables : /\ job.instance.filing_indicators[t] = "true"
                               /\ job.instance.facts[k] \in ModuleTables[t] }

\* C21: with filing-indicator validation on, a strict conversion of an
\* instance with an orphaned fact fails, writes nothing and names every
\* non-reported table that places an orphaned fact; a permissive one warns
\* about exactly the orphaned facts, names the same tables and writes its
\* output; without an orphaned fact neither fails nor warns.
C21_OrphanedFacts ==
    (pc = "converted" /\ job.validate_filing_indicators) =>
        LET affected == { t \in Tables :
                            /\ job.instance.filing_indicators[t] # "true"
                            /\ \E k \in ClaimedOrphans :
                                  job.instance.facts[k] \in ModuleTables[t] }
        IN IF ClaimedOrphans = {}
           THEN ~prev.failed /\ prev.warned = {} /\ prev.output
           ELSE IF job.strict_validation
           THEN prev.failed /\ ~prev.output /\ prev.cells = {} /\ prev.named = affected
           ELSE /\ ~prev.failed /\ prev.output
                /\ prev.warned = ClaimedOrphans /\ prev.named = affected

\* A strict conversion failed over a fact of the non-reported R_01.00 and
\* named it, although another fact is placed by both tables and is no
\* orphan because R_09.00 is reported.
C21_Witness ==
    /\ pc = "converted"
    /\ job.validate_filing_indicators
    /\ job.strict_validation
    /\ job.instance.filing_indicators["R_01.00"] = "false"
    /\ job.instance.filing_indicators["R_09.00"] = "true"
    /\ job.instance.facts = <<"ii774", "md103">>
    /\ ClaimedOrphans = {2}
    /\ prev.failed
    /\ prev.named = {"R_01.00"}

\* The integers among the first n values of the run.
IntsSeen(n) == { job.values[k].int : k \in { j \in 1..n : ~IsSpecial(job.values[j]) } }

\* C22: after any number of @decimals values of a data type, the parameter
\* is the minimum of the integers seen when there is one, and otherwise the
\* first special marker seen, wherever INF and #none stand among the values.
C22_MinimumDecimals ==
    (pc = "decimals" /\ job.seen > 0) =>
        IF IntsSeen(job.seen) # {}
        THEN /\ ~IsSpecial(prev)
             /\ prev.int \in IntsSeen(job.seen)
             /\ \A n \in IntsSeen(job.seen) : prev.int <= n
        ELSE prev = job.values[1]

\* INF came first, integers after it with the smallest in the middle, and
\* the parameter is that integer.
C22_Witness ==
    /\ pc = "decimals"
    /\ job.values = <<INF, IntDecimals(2), IntDecimals(4)>>
    /\ job.seen = 3
    /\ prev = IntDecimals(2)

\* The cells of the table being normalised that are codes outside the
\* declared set.
Outside == { k \in 1..Len(job.table_df) : job.allowed_values # {} /\ job.table_df[k] # NoObject /\ job.table_df[k] \notin job.allowed_values }

\* The cells among them that a member of the set with the same local name
\* and another prefix can replace.
Rewritable == { k \in Outside : \E a \in job.allowed_values : a.local = job.table_df[k].local /\ a.prefix # job.table_df[k].prefix }

\* C23: a cell in the set, a null cell and a cell of a column without a set
\* stay as they are; a cell outside the set becomes the member of the set
\* with its local name; when some cell has no such member the normalisation
\* raises, naming the datapoint, the value and the accepted local names; a
\* normalised table normalises to itself.
C23_AllowedValues ==
    (pc \in {"normalized", "renormalized"}) =>
        /\ prev.raised = (Outside # Rewritable)
        /\ prev.raised =>
             /\ prev.message.datapoint = job.datapoint
             /\ prev.message.values = { job.table_df[k].local : k \in Outside \ Rewritable }
             /\ prev.message.accepted = { a.local : a \in job.allowed_values }
        /\ ~prev.raised =>
             /\ Len(prev.table) = Len(job.table_df)
             /\ \A k \in 1..Len(job.table_df) :
                  IF k \in Rewritable
                  THEN /\ prev.table[k] \in job.allowed_values
                       /\ prev.table[k].local = job.table_df[k].local
                  ELSE prev.table[k] = job.table_df[k]
        /\ (pc = "renormalized") => (~prev.raised /\ prev.table = job.table_df)

\* A code with another prefix was rewritten next to a null cell, and the
\* outcome was normalised again.
C23_Witness ==
    /\ pc = "renormalized"
    /\ job.allowed_values # {}
    /\ prev.table = <<Code("eba_BT", "x22"), NoObject>>

\* The indicators of the file being converted whose filed text is none of
\* true, 1, false and 0.
BadIndicators == { t \in Tables : job.raw[t] \notin {"true", "1", "false", "0", "absent"} }

\* C24: filed is decoded as true for exactly true and 1 and as false for
\* exactly false and 0; any other text is a fatal error that aborts the
\* conversion without output, with filing-indicator validation on or off.
C24_FiledDecoding ==
    (pc = "parsed") =>
        /\ prev.raised = (BadIndicators # {})
        /\ prev.raised =>
             /\ prev.type = "FilingIndicatorValueError"
             /\ prev.offending_value \in { job.raw[t] : t \in BadIndicators }
             /\ ~prev.output
        /\ ~prev.raised =>
             \A t \in Tables :
                /\ (prev.filing_indicators[t] = "true") = (job.raw[t] \in {"true", "1"})
                /\ (prev.filing_indicators[t] = "false") = (job.raw[t] \in {"false", "0"})

\* A file with filed="TRUE" was converted with the validation off, and the
\* conversion raised naming TRUE.
C24_Witness ==
    /\ pc = "parsed"
    /\ ~job.validate_filing_indicators
    /\ job.raw["R_01.00"] = "TRUE"
    /\ job.raw["R_09.00"] = "1"
    /\ prev.raised
    /\ prev.offending_value = "TRUE"

\* C25: whatever is at the final output path is the whole package of a
\* conversion that did not fail; while a conversion writes, and after it
\* failed, nothing of it is at the final path.
C25_OutputAtomicity ==
    (output_dir.final # NoObject) =>
        /\ output_dir.final.written = output_dir.final.files
        /\ output_dir.final.job \notin output_dir.failed
        /\ (pc = "convert_main" /\ job.stage \in {"resolving", "writing", "raised"}) => output_dir.final.job # job.n

\* The second conversion failed after writing one of its two files, and the
\* final path still holds the package of the first.
C25_Witness ==
    /\ pc = "convert_main"
    /\ job.stage = "raised"
    /\ job.n = 2
    /\ job.files = 2
    /\ prev.temp # NoObject
    /\ prev.temp.written = 1
    /\ prev.final # NoObject
    /\ prev.final.job = 1
    /\ prev.failed = {2}

\* C26: in a call whose selected rules include one without an
\* implementation, that rule is skipped without a finding and without an
\* error, and the other selected rules are executed all the same: the call
\* returns, with the findings of the implemented rules and none of the
\* skipped ones.
C26_MissingSkipped ==
    (LoopOver /\ \E k \in 1..Len(selected) : ~Implemented(selected[k].code)) =>
        /\ pc = "returned"
        /\ \A k \in 1..Len(selected) :
             ~Implemented(selected[k].code) => selected[k].code \notin Codes(all_findings)
        /\ \A k \in 1..Len(selected) :
             Implemented(selected[k].code) =>
                \A j \in 1..Len(ClaimedFindings(selected[k])) :
                   ClaimedFindings(selected[k])[j] \in Elements(all_findings)

\* The modules of the rules package that define @rule_impl functions.
RulesPackageModules ==
    {"eba_additional", "eba_currency", "eba_decimals", "eba_entity", "eba_guidance",
     "eba_naming", "eba_units", "xml_context", "xml_document", "xml_encoding",
     "xml_facts", "xml_filing_indicators", "xml_root_element", "xml_schema_ref",
     "xml_taxonomy", "xml_units", "xml_wellformedness"}

\* C27: when run_validation is in its rule loop, every @rule_impl function
\* of every module of the rules package is registered under its code and
\* format, so no selected rule with a function in the package is skipped as
\* unimplemented.
C27_AllFamiliesRegistered ==
    (pc = "loop") =>
        \A m \in RulesPackageModules : \A i \in 1..Len(ModuleDecorators(m)) :
            LET d == ModuleDecorators(m)[i]
            IN /\ <<d.code, d.format>> \in DOMAIN impl_registry
               /\ impl_registry[<<d.code, d.format>>] = d.func

\* Two contexts have the same entity identifier (scheme and value), the
\* same period and the same scenario content.
SameContext(a, b) ==
    /\ (a.entity = NoObject) = (b.entity = NoObject)
    /\ (a.entity # NoObject /\ b.entity # NoObject) =>
          (a.entity.scheme = b.entity.scheme /\ Strip(a.entity.text) = Strip(b.entity.text))
    /\ a.period = b.period
    /\ (IF a.scenario = NoObject THEN {} ELSE Elements(a.scenario.children))
         = (IF b.scenario = NoObject THEN {} ELSE Elements(b.scenario.children))

\* The findings the claim describes from the k-th context on: one for each
\* context that has the content of an earlier one, naming the first of them.
RECURSIVE ClaimedDuplicates(_)
ClaimedDuplicates(k) ==
    IF k > Len(job.contexts) THEN <<>>
    ELSE LET earlier == { j \in 1..(k - 1) : SameContext(job.contexts[j], job.contexts[k]) }
         IN (IF earlier = {} THEN <<>>
             ELSE <<DuplicateFinding(ContextIds[k],
                                     ContextIds[CHOOSE j \in earlier : \A i \in earlier : j <= i])>>)
            \o ClaimedDuplicates(k + 1)

\* C28: XML-067 reports, for every group of contexts with the same entity
\* identifier, period and scenario content, each context after the first in
\* document order, with its id and the id of the first; contexts that
\* differ in identifier, period or scenario are not reported.
C28_DuplicateContexts ==
    (pc = "checked") => prev.findings = ClaimedDuplicates(1)

\* The type of the k-th fact of the job: that of its metric in the module,
\* and without one (when fallback holds) that of its unit measure.
FactType(k, fallback) ==
    LET f == job.facts[k]
    IN IF job.module # NoObject /\ f.metric \in job.module.value.concepts
       THEN job.module.value.attributes
       ELSE IF fallback /\ f.unit # None THEN _infer_type_from_unit(job.units[f.unit])
       ELSE None

\* The threshold the claim gives for monetary facts.
ClaimedThreshold ==
    IF job.module # NoObject /\ HasRelaxedSegment(job.module.value.url) THEN -6 ELSE -4

\* Whether the k-th fact, of integer decimals d, is to be reported by the
\* rule.
ClaimedReported(code, k, d) ==
    IF code = "EBA-DEC-001" THEN FactType(k, TRUE) = "$decimalsMonetary" /\ d < ClaimedThreshold
    ELSE IF code = "EBA-DEC-002" THEN FactType(k, TRUE) = "$decimalsPercentage" /\ d < 4
    ELSE IF code = "EBA-DEC-003" THEN FactType(k, FALSE) = "$decimalsInteger" /\ d # 0
    ELSE d > 20

IntegerFacts == { k \in 1..Len(job.facts) : job.facts[k].decimals # NoObject /\ ~IsSpecial(job.facts[k].decimals) }

\* C29 as stated: a fact of integer decimals d is reported by EBA-DEC-001
\* iff it is monetary and d is below -4 (-6 for FP, ESG, Pillar3 and REM
\* modules), by EBA-DEC-002 iff it is a percentage and d < 4, by EBA-DEC-003
\* iff it is integer-typed and d is not 0, by EBA-DEC-004 iff d > 20.
C29_Thresholds ==
    (pc = "decimals_rules" /\ prev # NoObject) =>
        \A k \in IntegerFacts :
            (k \in Elements(prev.findings)) = ClaimedReported(prev.code, k, job.facts[k].decimals.int)

\* C29 amended: the same, where EBA-DEC-001, EBA-DEC-002 and EBA-DEC-003
\* report only facts that have a unitRef.
C29_ThresholdsOfNumericFacts ==
    (pc = "decimals_rules" /\ prev # NoObject) =>
        \A k \in IntegerFacts :
            (k \in Elements(prev.findings)) =
                (/\ ClaimedReported(prev.code, k, job.facts[k].decimals.int)
                 /\ (prev.code = "EBA-DEC-004" \/ job.facts[k].unit # None))

\* A monetary fact with decimals -5 under a REM module was given to
\* EBA-DEC-001 and was not reported.
C29_Witness ==
    /\ pc = "decimals_rules"
    /\ prev # NoObject
    /\ prev.code = "EBA-DEC-001"
    /\ job.module # NoObject
    /\ HasRelaxedSegment(job.module.value.url)
    /\ job.facts = <<EbaFact("eba_met:mi1", "u1", IntDecimals(-5))>>
    /\ prev.findings = <<>>

\* C30: once run_validation has returned or raised, the temporary directory
\* into which an XML-in-ZIP input was extracted no longer exists.
C30_TempDirReleased ==
    (pc \in {"returned", "raised"}) => temp_dir # "exists"

\* C4: every finding of a context built for a rule of the loaded registry
\* has a rule_id that is the code of a registry entry, also when add_finding
\* is given a rule_code, and a severity among ERROR, WARNING, INFO.
C4_FindingsNameCatalogRules ==
    direct_ctx # NoObject =>
        \A k \in 1..Len(direct_ctx["_findings"]) :
            /\ direct_ctx["_findings"][k].rule_id
                  \in { registry[n].code : n \in 1..Len(registry) }
            /\ direct_ctx["_findings"][k].severity \in Severity


\* The filter predicate as C1 states it.
C1Keep(r) ==
    /\ (rule_set = "xml" /\ r.xml) \/ (rule_set = "csv" /\ r.csv)
    /\ r.eba => eba
    /\ ~(rule_set = "csv" /\ post_conversion /\ ~r.post_conversion)

\* C1: select_rules returns, in registry order, exactly the rules r with
\* ((rule_set = xml and r.xml) or (rule_set = csv and r.csv)) and
\* (r.eba implies eba) and not (rule_set = csv and post_conversion and not
\* r.post_conversion); post_conversion has no effect for xml; no rule is
\* duplicated or reordered.
C1_SelectRules ==
    pc = "selected" =>
        /\ selected = SelectSeq(registry, C1Keep)
        /\ rule_set = "xml" =>
              selected = select_rules(registry, "xml", eba, ~post_conversion)
        /\ Len(selected) <= Len(registry)

\* C1 witness: an xml selection in post-conversion mode that keeps a rule
\* whose post_conversion flag is false and drops another rule.
C1_Witness ==
    /\ pc = "selected"
    /\ rule_set = "xml" /\ post_conversion
    /\ Len(selected) = 1 /\ Len(registry) = 2
    /\ ~selected[1].post_conversion

====
